---- MODULE Spec2Model ----
(***************************************************************************)
(* scimesh: multi-provider paper search.                                   *)
(*                                                                         *)
(*   SpecPaper   Paper.__eq__ / Paper.__hash__        (scimesh/models.py)  *)
(*   SpecDedupe  SearchResult.dedupe                  (scimesh/models.py)  *)
(*   SpecStream  _search_stream, streaming fan-in     (scimesh/search.py)  *)
(*   SpecBatch   _search_batch, gather and aggregate  (scimesh/search.py)  *)
(*   SpecTake    take                                 (scimesh/search.py)  *)
(*   SpecS2      _search_api, _search_by_author and _fetch_with_retry       *)
(*                               (scimesh/providers/semantic_scholar.py)   *)
(*   SpecEntry   search, with the query parser        (scimesh/search.py)  *)
(*                                                                         *)
(* Every specification owns a group of the variables and leaves the other  *)
(* groups at their idle values.                                            *)
(***************************************************************************)
EXTENDS Integers, Sequences, FiniteSets, TLC

VARIABLES
    \* ---- Paper equality and hashing
    pa, pb,          \* two Paper records
    cmp,             \* <<>> or <<[eq, ha, hb]>>: the outcome of pa == pb, hash(pa), hash(pb)
    \* ---- SearchResult.dedupe
    sr,              \* the receiver, a SearchResult
    chain,           \* <<sr.dedupe(), sr.dedupe().dedupe()>>, as far as it was computed
    \* ---- the search call (streaming and batch)
    providers,       \* the provider list, as the sequence of the providers' names
    on_error,        \* "fail" | "warn" | "ignore"
    pc,              \* pc[i]: where the fetch_one task of providers[i] stands
    yielded,         \* yielded[i]: the papers provider i has yielded so far, in order
    \* ---- streaming only
    queue,           \* the asyncio.Queue of _search_stream
    active_tasks,    \* the nonlocal counter of _search_stream
    cstate,          \* the consumer's generator: "reading" | "ended" | "raised"
    consumed,        \* every item the consumer has taken from the queue, in order
    \* ---- batch only
    dedupe_flag,     \* the dedupe argument
    results,         \* results[i]: fetch_one's return value, once task i has returned
    outcome,         \* what the awaited _search_batch gave its caller
    done_order,      \* the tasks that have returned, in the order they returned
    \* ---- take(n, aiter)
    take_n,          \* the argument n
    aiter,           \* the items the source iterator has not handed out yet
    count,           \* the local counter of take
    tpc,             \* take's generator: "created" | "yielded" | "ended"
    pulled,          \* every item take has taken from aiter, in order
    taken,           \* every item take has yielded, in order
    \* ---- SemanticScholar._search_api / _search_by_author
    method,          \* "_search_api" | "_search_by_author"
    s2_query,        \* the Query argument
    max_results,     \* the max_results the caller of Provider.search asked for
    s2pc,            \* "created" | "request" | "sleep" | "ended" | "raised"
    request,         \* the request sent last: its kind and its parameters
    offset,          \* the local offset of the page loop
    page_offsets,    \* the offsets of the pages requested so far, in order
    attempt,         \* _fetch_with_retry: the loop variable
    retry_delay,     \* _fetch_with_retry: the local retry_delay
    sent,            \* requests the running _fetch_with_retry call has sent
    call_log,        \* the statuses that call has received, in order
    sleeps,          \* the sleeps of that call: <<[attempt, delay], ...>>
    last_page_len,   \* len(data) of the page received last, -1 before any
    surfaced,        \* the number of Papers surfaced to the caller
    surfaced_cites,  \* the citations_count values of the Papers surfaced
    \* ---- search(), the entry point
    query_arg,       \* the query argument: a Query, or a string as its tokens
    stream_flag,     \* the stream argument
    call,            \* "uncalled" | "raised" | "returned" | "started"
    parse_calls,     \* how often parse has been called
    handed_query,    \* the Query handed to _search_stream or _search_batch
    \* ---- one record each, with a field per local or attribute
    fb,              \* a call of FulltextFallbackMixin._search_with_fulltext_filter
    ev,              \* a pure function, its argument and its value
    cl,              \* the HTTP clients of the provider instances of a search call
    dl               \* a call of download_papers

paperVars  == <<pa, pb, cmp>>
dedupeVars == <<sr, chain>>
callVars   == <<providers, on_error, pc, yielded>>
streamVars == <<queue, active_tasks, cstate, consumed>>
batchVars  == <<dedupe_flag, results, outcome, done_order>>
takeVars   == <<take_n, aiter, count, tpc, pulled, taken>>
s2Vars     == <<method, s2_query, max_results, s2pc, request, offset, page_offsets,
                attempt, retry_delay, sent, call_log, sleeps, last_page_len,
                surfaced, surfaced_cites>>
entryVars  == <<query_arg, stream_flag, call, parse_calls, handed_query>>
laterVars  == <<fb, ev, cl, dl>>
restVars == <<takeVars, s2Vars, entryVars, laterVars>>
vars == <<paperVars, dedupeVars, callVars, streamVars, batchVars, restVars>>

------------------------------------------------------------------------------
(* Bounds *)

MaxPapers == 3          \* longest SearchResult.papers list given to dedupe
MaxProviders == 2       \* longest provider list given to search()
MaxYield == 3           \* papers the providers of one search() call yield in total

------------------------------------------------------------------------------
(* Strings are sequences of one-character strings, so that str.lower(), the *)
(* f-string of dedupe and string equality are computed and not assumed.     *)

Digits == <<"0", "1", "2", "3", "4", "5", "6", "7", "8", "9">>

LowerChar(c) ==
    CASE c = "A" -> "a"
      [] c = "B" -> "b"
      [] OTHER   -> c

\* str.lower()
Lower(s) == [k \in 1..Len(s) |-> LowerChar(s[k])]

RECURSIVE NatToStr(_)
NatToStr(n) ==
    IF n < 10 THEN <<Digits[n + 1]>>
    ELSE NatToStr(n \div 10) \o <<Digits[(n % 10) + 1]>>

\* f"{year}" of an int
IntToStr(n) == IF n < 0 THEN <<"-">> \o NatToStr(0 - n) ELSE NatToStr(n)

------------------------------------------------------------------------------
(* Paper (models.py).  The fields read by __eq__, __hash__ and dedupe are   *)
(* title, year and doi; doi is str | None.                                  *)

None == [some |-> FALSE, val |-> <<>>]
Str(s) == [some |-> TRUE, val |-> s]

\* Python truthiness of a str | None: None and "" are falsy.
Truthy(d) == d.some /\ d.val # <<>>

Titles == {<<"A">>, <<"a">>, <<"b">>}
Years  == {2020, 2021}
Dois   == {None, Str(<<>>), Str(<<"d">>), Str(<<"a", ":", "2", "0", "2", "0">>)}

Paper == [title : Titles, year : Years, doi : Dois]

\* An equality that looks at title and year only.
PaperEqIgnoresDoi(self, other) ==
    Lower(self.title) = Lower(other.title) /\ self.year = other.year

\* Paper.__eq__ for two Paper operands
PaperEq(self, other) ==
    IF Truthy(self.doi) /\ Truthy(other.doi)
    THEN self.doi.val = other.doi.val
    ELSE Lower(self.title) = Lower(other.title) /\ self.year = other.year

\* Paper.__hash__.  hash() of a str or of a tuple is a function of the value
\* hashed; the value stands for its hash, tagged by its type, so two hashes
\* are equal exactly when the hashed values are.
PaperHash(self) ==
    IF Truthy(self.doi)
    THEN <<"str", self.doi.val>>
    ELSE <<"tuple", Lower(self.title), self.year>>

------------------------------------------------------------------------------
(* SearchResult (models.py) *)

EmptyMap == [n \in {} |-> 0]

SearchResult(papers, errors, totals) ==
    [papers |-> papers, errors |-> errors, total_by_provider |-> totals]

\* the key computed at line 66
DedupeKey(paper) ==
    IF Truthy(paper.doi)
    THEN paper.doi.val
    ELSE Lower(paper.title) \o <<":">> \o IntToStr(paper.year)

\* A pass that stops looking for duplicates once it has dropped one.
RECURSIVE DedupeLoopDropsOne(_, _, _)
DedupeLoopDropsOne(ps, seen, unique) ==
    IF ps = <<>> THEN unique
    ELSE LET paper == Head(ps)
             key   == DedupeKey(paper)
         IN IF key \notin seen
            THEN DedupeLoopDropsOne(Tail(ps), seen \cup {key}, Append(unique, paper))
            ELSE unique \o Tail(ps)

\* the for loop of dedupe, lines 62-69
RECURSIVE DedupeLoop(_, _, _)
DedupeLoop(ps, seen, unique) ==
    IF ps = <<>> THEN unique
    ELSE LET paper == Head(ps)
             key   == DedupeKey(paper)
         IN IF key \notin seen
            THEN DedupeLoop(Tail(ps), seen \cup {key}, Append(unique, paper))
            ELSE DedupeLoop(Tail(ps), seen, unique)

\* A dedupe that counts the papers again after dropping the duplicates.
dedupeRecounts(self) ==
    LET unique == DedupeLoop(self.papers, {}, <<>>)
    IN SearchResult(unique, self.errors,
                    [k \in DOMAIN self.total_by_provider |-> Len(unique)])

\* SearchResult.dedupe
dedupe(self) ==
    SearchResult(DedupeLoop(self.papers, {}, <<>>), self.errors, self.total_by_provider)

------------------------------------------------------------------------------
(* Idle values of the variable groups *)

PaperIdle  == pa = None /\ pb = None /\ cmp = <<>>
DedupeIdle == sr = SearchResult(<<>>, EmptyMap, EmptyMap) /\ chain = <<>>
CallIdle   == providers = <<>> /\ on_error = "warn" /\ pc = <<>> /\ yielded = <<>>
StreamIdle == queue = <<>> /\ active_tasks = 0 /\ cstate = "idle" /\ consumed = <<>>
BatchIdle  == dedupe_flag = FALSE /\ results = <<>> /\ outcome = [kind |-> "idle"]
              /\ done_order = <<>>
TakeIdle   == take_n = 0 /\ aiter = <<>> /\ count = 0 /\ tpc = "idle"
              /\ pulled = <<>> /\ taken = <<>>
S2Idle     == method = "" /\ s2_query = <<>> /\ max_results = 0 /\ s2pc = "idle"
              /\ request = <<>> /\ offset = 0 /\ page_offsets = <<>>
              /\ attempt = 0 /\ retry_delay = 0 /\ sent = 0 /\ call_log = <<>>
              /\ sleeps = <<>> /\ last_page_len = 0 - 1 /\ surfaced = 0
              /\ surfaced_cites = {}
EntryIdle  == query_arg = <<>> /\ stream_flag = FALSE /\ call = "idle"
              /\ parse_calls = 0 /\ handed_query = <<>>
Idle       == [pc |-> "idle"]
FbIdle     == fb = Idle
EvIdle     == ev = Idle
ClIdle     == cl = Idle
DlIdle     == dl = Idle
LaterIdle  == FbIdle /\ EvIdle /\ ClIdle /\ DlIdle
RestIdle   == TakeIdle /\ S2Idle /\ EntryIdle /\ LaterIdle

------------------------------------------------------------------------------
(* SpecPaper: two Papers are compared and hashed *)

InitPaper ==
    /\ pa \in Paper /\ pb \in Paper /\ cmp = <<>>
    /\ DedupeIdle /\ CallIdle /\ StreamIdle /\ BatchIdle /\ RestIdle

Compare ==
    /\ cmp = <<>>
    /\ cmp' = <<[eq |-> PaperEq(pa, pb), ha |-> PaperHash(pa), hb |-> PaperHash(pb)]>>
    /\ UNCHANGED <<pa, pb, dedupeVars, callVars, streamVars, batchVars, restVars>>

NextPaper == Compare

SpecPaper == InitPaper /\ [][NextPaper]_vars

------------------------------------------------------------------------------
(* SpecDedupe: dedupe() applied to a SearchResult, and again to its result *)

SeqsUpTo(S, n) == UNION {[1..k -> S] : k \in 0..n}

\* errors and total_by_provider of the receiver: two SearchResults, one with
\* both maps empty and one of a search in which b failed and a found 3 papers
Metas == { [errors |-> EmptyMap, totals |-> EmptyMap],
           [errors |-> [n \in {"b"} |-> "err_b"], totals |-> [n \in {"a"} |-> 3]] }

InitDedupe ==
    /\ \E ps \in SeqsUpTo(Paper, MaxPapers), m \in Metas :
          sr = SearchResult(ps, m.errors, m.totals)
    /\ chain = <<>>
    /\ PaperIdle /\ CallIdle /\ StreamIdle /\ BatchIdle /\ RestIdle

Dedupe ==
    /\ Len(chain) < 2
    /\ chain' = Append(chain, dedupe(IF chain = <<>> THEN sr ELSE chain[Len(chain)]))
    /\ UNCHANGED <<sr, paperVars, callVars, streamVars, batchVars, restVars>>

NextDedupe == Dedupe

SpecDedupe == InitDedupe /\ [][NextDedupe]_vars

------------------------------------------------------------------------------
(* The search() call: inputs shared by the streaming and the batch mode *)

Names    == {"a", "b", "c"}
Policies == {"fail", "warn", "ignore"}

\* What the providers find.  Every provider searches the same literature, so
\* each yields the first papers of one catalogue: a paper with its DOI, then
\* the same paper as a service returns it that knows no DOI and writes the
\* title in other capitals, and so on in turn.
P1 == [title |-> <<"A">>, year |-> 2020, doi |-> Str(<<"d">>)]
P2 == [title |-> <<"a">>, year |-> 2020, doi |-> None]
Catalogue(k) == IF k % 2 = 1 THEN P1 ELSE P2

\* provider lists of every length, with the names taken in turn
TurnName(i) == IF i % 2 = 1 THEN "a" ELSE "b"

N == Len(providers)
Tasks == 1..N

RECURSIVE SumLen(_, _)
SumLen(f, n) == IF n = 0 THEN 0 ELSE Len(f[n]) + SumLen(f, n - 1)

TotalYielded == SumLen(yielded, N)

\* a task whose provider raised
Raised(i) == pc[i] \in {"closing_err", "failed"}
\* a task that has run to its end
Finished(i) == pc[i] \in {"done", "failed"}

InitCall(lists) ==
    /\ providers \in lists
    /\ on_error \in Policies
    /\ pc = [i \in 1..Len(providers) |-> "created"]
    /\ yielded = [i \in 1..Len(providers) |-> <<>>]

------------------------------------------------------------------------------
(* SpecStream: _search_stream.  One action per stretch of fetch_one between *)
(* two suspension points, and one for a read of the consumer.  The queue is *)
(* unbounded, so queue.put never suspends.                                  *)

PaperItem(i, k, p) == [kind |-> "paper", src |-> i, idx |-> k, paper |-> p]
ErrorItem(i)       == [kind |-> "error", src |-> i, idx |-> 0, paper |-> None]
NoneItem           == [kind |-> "none",  src |-> 0, idx |-> 0, paper |-> None]

QueuePutFront(q, item) == <<item>> \o q

\* asyncio.Queue.put on the FIFO queue
QueuePut(q, item) == Append(q, item)

HandlerAlwaysForwards(q, i, policy) == QueuePut(q, ErrorItem(i))

\* the except clause of fetch_one, lines 45-49: the queue after it
Handler(q, i, policy) ==
    IF policy = "fail" THEN QueuePut(q, ErrorItem(i)) ELSE q

FinallySignalsEveryTime(q, remaining) == QueuePut(q, NoneItem)

\* the finally clause of fetch_one, lines 50-53: the queue after it, given
\* the decremented active_tasks
Finally(q, remaining) ==
    IF remaining = 0 THEN QueuePut(q, NoneItem) ELSE q

InitStream ==
    /\ InitCall({[i \in 1..n |-> TurnName(i)] : n \in 0..MaxProviders})
    /\ queue = <<>>
    /\ active_tasks = Len(providers)
    /\ cstate = "reading"
    /\ consumed = <<>>
    /\ PaperIdle /\ DedupeIdle /\ BatchIdle /\ RestIdle

\* the task starts: __aenter__, then provider.search up to its first request
Enter(i) ==
    /\ pc[i] = "created"
    /\ pc' = [pc EXCEPT ![i] = "searching"]
    /\ UNCHANGED <<providers, on_error, yielded, streamVars, paperVars, dedupeVars, batchVars, restVars>>

\* provider.search yields its next paper, and the loop body puts it
Yield(i) ==
    /\ pc[i] = "searching"
    /\ TotalYielded < MaxYield
    /\ LET k == Len(yielded[i]) + 1
       IN /\ yielded' = [yielded EXCEPT ![i] = Append(@, Catalogue(k))]
          /\ queue' = QueuePut(queue, PaperItem(i, k, Catalogue(k)))
    /\ UNCHANGED <<providers, on_error, pc, active_tasks, cstate, consumed,
                   paperVars, dedupeVars, batchVars, restVars>>

\* provider.search is exhausted; __aexit__ closes the client
SearchEnds(i) ==
    /\ pc[i] = "searching"
    /\ pc' = [pc EXCEPT ![i] = "closing"]
    /\ UNCHANGED <<providers, on_error, yielded, streamVars, paperVars, dedupeVars, batchVars, restVars>>

\* provider.search raises; __aexit__ closes the client
SearchRaises(i) ==
    /\ pc[i] = "searching"
    /\ pc' = [pc EXCEPT ![i] = "closing_err"]
    /\ UNCHANGED <<providers, on_error, yielded, streamVars, paperVars, dedupeVars, batchVars, restVars>>

\* a successful task leaves the try statement: the finally clause
Leave(i) ==
    /\ pc[i] = "closing"
    /\ pc' = [pc EXCEPT ![i] = "done"]
    /\ active_tasks' = active_tasks - 1
    /\ queue' = Finally(queue, active_tasks - 1)
    /\ UNCHANGED <<providers, on_error, yielded, cstate, consumed,
                   paperVars, dedupeVars, batchVars, restVars>>

\* a failed task leaves the try statement: the except clause, then finally
LeaveFailed(i) ==
    /\ pc[i] = "closing_err"
    /\ pc' = [pc EXCEPT ![i] = "failed"]
    /\ active_tasks' = active_tasks - 1
    /\ queue' = Finally(Handler(queue, i, on_error), active_tasks - 1)
    /\ UNCHANGED <<providers, on_error, yielded, cstate, consumed,
                   paperVars, dedupeVars, batchVars, restVars>>

ConsumerKeepsReading(item) == "reading"

\* lines 62-66: what the generator does with the item it got
ConsumerAfter(item) ==
    CASE item.kind = "none"  -> "ended"
      [] item.kind = "error" -> "raised"
      [] OTHER               -> "reading"

\* the consumer's next read: queue.get() returns the head of the queue
Get ==
    /\ cstate = "reading"
    /\ queue # <<>>
    /\ consumed' = Append(consumed, Head(queue))
    /\ queue' = Tail(queue)
    /\ cstate' = ConsumerAfter(Head(queue))
    /\ UNCHANGED <<callVars, active_tasks, paperVars, dedupeVars, batchVars, restVars>>

NextStream ==
    \/ \E i \in Tasks : Enter(i)
    \/ \E i \in Tasks : Yield(i)
    \/ \E i \in Tasks : SearchEnds(i)
    \/ \E i \in Tasks : SearchRaises(i)
    \/ \E i \in Tasks : Leave(i)
    \/ \E i \in Tasks : LeaveFailed(i)
    \/ Get

SpecStream == InitStream /\ [][NextStream]_vars

\* every step a created task can take
TaskStep(i) ==
    \/ Enter(i) \/ Yield(i) \/ SearchEnds(i) \/ SearchRaises(i)
    \/ Leave(i) \/ LeaveFailed(i)

\* The event loop runs every task that is ready, a provider's search comes
\* to its end or raises, and the caller keeps iterating the generator.
FairStream ==
    /\ \A i \in 1..MaxProviders : WF_vars(i \in Tasks /\ TaskStep(i))
    /\ WF_vars(Get)

SpecStreamFair == SpecStream /\ FairStream

------------------------------------------------------------------------------
(* Streaming search: what the claims speak about *)

\* everything ever put on the queue, in the order it was put
PutLog == consumed \o queue

IsPaperOf(it, i) == it.kind = "paper" /\ it.src = i

\* the items of provider i in a sequence of items, in that sequence's order
ItemsOf(i, s) == SelectSeq(s, LAMBDA it : IsPaperOf(it, i))

\* the first m papers provider i yielded, as the items fetch_one put
FirstYielded(i, m) == [k \in 1..m |-> PaperItem(i, k, yielded[i][k])]

\* the consumer got every paper provider i has yielded, once and in order
AllDelivered(i) == ItemsOf(i, consumed) = FirstYielded(i, Len(yielded[i]))

NoneCount == Cardinality({k \in 1..Len(PutLog) : PutLog[k].kind = "none"})

HasKind(s, kind) == \E k \in 1..Len(s) : s[k].kind = kind

AllFinished == \A i \in Tasks : Finished(i)
SomeRaised  == \E i \in Tasks : Raised(i)

\* C3: streaming without a provider error: what the consumer has got is an
\* interleaving of the providers' sequences (of each provider its papers so
\* far, once each and in the provider's order, and nothing else), no error
\* is raised, the stream ends only after every yielded paper was delivered,
\* and once the last paper was delivered and the tasks are through the
\* stream has ended.
C3_StreamIsInterleaving ==
    (cstate # "idle" /\ ~SomeRaised) =>
        /\ cstate # "raised"
        /\ \A i \in Tasks :
              \E m \in 0..Len(yielded[i]) : ItemsOf(i, consumed) = FirstYielded(i, m)
        /\ \A k \in 1..Len(consumed) :
              \/ consumed[k].kind = "paper" /\ consumed[k].src \in Tasks
              \/ consumed[k].kind = "none" /\ k = Len(consumed)
        /\ cstate = "ended" => \A i \in Tasks : Finished(i) /\ AllDelivered(i)
        /\ (TotalYielded > 0 /\ AllFinished /\ queue = <<>>) => cstate = "ended"

\* two providers, 2 and 1 papers, delivered interleaved, the same paper from
\* both providers delivered twice, then the end
C3_Witness ==
    /\ cstate = "ended" /\ N = 2 /\ ~SomeRaised
    /\ Len(yielded[1]) = 2 /\ Len(yielded[2]) = 1
    /\ consumed[1].src = 1 /\ consumed[2].src = 2 /\ consumed[3].src = 1
    /\ consumed[1].paper = consumed[2].paper

\* C4 as amended: streaming with on_error = "fail": once a provider has
\* raised the stream never ends normally; the consumer raises exactly when
\* its reads reach the error in queue order, the error is a failed
\* provider's, nothing is delivered after it, and when the tasks are through
\* and the queue is drained the consumer has raised.
C4_FailStreamEndsByRaising ==
    (cstate # "idle" /\ on_error = "fail") =>
        /\ SomeRaised => cstate # "ended"
        /\ cstate = "raised" <=> HasKind(consumed, "error")
        /\ \A k \in 1..Len(consumed) :
              consumed[k].kind = "error" =>
                  /\ k = Len(consumed)
                  /\ pc[consumed[k].src] = "failed"
        /\ (SomeRaised /\ AllFinished /\ queue = <<>>) => cstate = "raised"

\* a paper was queued before the error: the consumer got the paper, then raised
C4_Witness ==
    /\ on_error = "fail" /\ cstate = "raised" /\ N = 2
    /\ Len(consumed) = 2 /\ consumed[1].kind = "paper" /\ consumed[1].src = 1
    /\ consumed[2].kind = "error" /\ consumed[2].src = 2

\* C4 as claimed: ... and the error is raised at the consumer's next read
\* after the provider failed.
C4_RaisedAtNextRead ==
    /\ [](C4_FailStreamEndsByRaising)
    /\ [][(/\ on_error = "fail"
           /\ \E i \in Tasks : pc[i] = "failed"
           /\ consumed' # consumed) => cstate' = "raised"]_vars

\* C5: the end-of-stream signal is put exactly once: at most once, by then
\* every task has finished and it stays the last item ever put, and when
\* the tasks of the search have all finished it has been put; and the
\* consumer that saw it has got every paper every provider yielded.
C5_EndSignalOnceAndLast ==
    cstate # "idle" =>
        /\ NoneCount <= 1
        /\ NoneCount = 1 => PutLog[Len(PutLog)].kind = "none" /\ AllFinished
        /\ AllFinished => NoneCount = 1
        /\ cstate = "ended" => \A i \in Tasks : AllDelivered(i)

\* the signal is in the queue behind a paper, both providers through
C5_Witness ==
    /\ N = 2 /\ AllFinished /\ Len(queue) >= 2
    /\ queue[Len(queue)].kind = "none" /\ queue[1].kind = "paper"
    /\ pc[1] = "failed" /\ pc[2] = "done" /\ TotalYielded = MaxYield

\* a task that has not finished can take its next step
CanContinue(j) ==
    Finished(j) \/ ENABLED (Enter(j) \/ SearchEnds(j) \/ Leave(j) \/ LeaveFailed(j))

\* C6: streaming with on_error = "warn" or "ignore": no error is ever put on
\* the queue or raised to the consumer, a failure leaves every sibling task
\* able to go on, the stream ends only after every paper of every provider
\* was delivered, and it has ended once the tasks are through and the queue
\* is drained.
C6_WarnIgnoreStreamEndsNormally ==
    (cstate # "idle" /\ on_error \in {"warn", "ignore"}) =>
        /\ cstate # "raised"
        /\ ~HasKind(PutLog, "error")
        /\ \A i, j \in Tasks : (Raised(i) /\ j # i) => CanContinue(j)
        /\ cstate = "ended" => \A i \in Tasks : Finished(i) /\ AllDelivered(i)
        /\ (N >= 1 /\ AllFinished /\ queue = <<>>) => cstate = "ended"

\* provider 1 raised after a paper, provider 2 delivered 2 papers, normal end
C6_Witness ==
    /\ on_error = "warn" /\ cstate = "ended" /\ N = 2
    /\ pc[1] = "failed" /\ Len(yielded[1]) = 1
    /\ pc[2] = "done" /\ Len(yielded[2]) = 2
    /\ consumed[1].src = 1 /\ Len(consumed) = 4

------------------------------------------------------------------------------
(* SpecBatch: _search_batch.  gather runs one fetch_one per provider; the   *)
(* tasks start, yield and finish in any order.                              *)

\* the exception object raised by the provider at position i of the list
ErrorOf(i) == i
NoError == 0

NotReturned == [returned |-> FALSE, name |-> "", papers |-> <<>>, error |-> NoError]

\* fetch_one's return value, lines 85 and 87
FetchResult(name, papers, error) ==
    [returned |-> TRUE, name |-> name, papers |-> papers, error |-> error]

\* dict[key] = value
MapSet(m, key, value) ==
    [x \in (DOMAIN m) \cup {key} |-> IF x = key THEN value ELSE m[x]]

Pending == [kind |-> "pending", value |-> SearchResult(<<>>, EmptyMap, EmptyMap),
            error |-> NoError]
ReturnedValue(v) == [kind |-> "returned", value |-> v, error |-> NoError]
RaisedError(e)   == [kind |-> "raised", value |-> SearchResult(<<>>, EmptyMap, EmptyMap),
                     error |-> e]

GatherAsCompleted(rs, order) == [k \in 1..Len(rs) |-> rs[order[k]]]

\* asyncio.gather, line 89: the tasks' return values in the order of the
\* provider list, whatever the order in which the tasks returned
Gather(rs, order) == rs

LoopBodyRaisesLatest(acc, r, policy) ==
    IF r.error # NoError
    THEN IF policy = "fail"
         THEN [acc EXCEPT !.raised = r.error]
         ELSE [acc EXCEPT !.errors = MapSet(acc.errors, r.name, r.error)]
    ELSE [acc EXCEPT !.papers = acc.papers \o r.papers,
                     !.totals = MapSet(acc.totals, r.name, Len(r.papers))]

LoopBodyKeepsFirstError(acc, r, policy) ==
    IF acc.raised # NoError THEN acc
    ELSE IF r.error # NoError
    THEN IF policy = "fail"
         THEN [acc EXCEPT !.raised = r.error]
         ELSE IF r.name \in DOMAIN acc.errors THEN acc
              ELSE [acc EXCEPT !.errors = MapSet(acc.errors, r.name, r.error)]
    ELSE [acc EXCEPT !.papers = acc.papers \o r.papers,
                     !.totals = MapSet(acc.totals, r.name, Len(r.papers))]

LoopBodyCountsAllSoFar(acc, r, policy) ==
    IF acc.raised # NoError THEN acc
    ELSE IF r.error # NoError
    THEN IF policy = "fail"
         THEN [acc EXCEPT !.raised = r.error]
         ELSE [acc EXCEPT !.errors = MapSet(acc.errors, r.name, r.error)]
    ELSE [acc EXCEPT !.papers = acc.papers \o r.papers,
                     !.totals = MapSet(acc.totals, r.name, Len(acc.papers \o r.papers))]

\* one pass of the for loop of lines 95-104 over the locals all_papers,
\* errors and totals; raised is the error the raise statement left with
LoopBody(acc, r, policy) ==
    IF acc.raised # NoError THEN acc
    ELSE IF r.error # NoError
    THEN IF policy = "fail"
         THEN [acc EXCEPT !.raised = r.error]
         ELSE [acc EXCEPT !.errors = MapSet(acc.errors, r.name, r.error)]
    ELSE [acc EXCEPT !.papers = acc.papers \o r.papers,
                     !.totals = MapSet(acc.totals, r.name, Len(r.papers))]

RECURSIVE Loop(_, _, _)
Loop(acc, rs, policy) ==
    IF rs = <<>> THEN acc ELSE Loop(LoopBody(acc, Head(rs), policy), Tail(rs), policy)

\* lines 91-108: from the gathered results to what the caller gets
Aggregated(rs, policy, dd) ==
    LET acc == Loop([raised |-> NoError, papers |-> <<>>,
                     errors |-> EmptyMap, totals |-> EmptyMap], rs, policy)
        result == SearchResult(acc.papers, acc.errors, acc.totals)
    IN IF acc.raised # NoError THEN RaisedError(acc.raised)
       ELSE ReturnedValue(IF dd THEN dedupe(result) ELSE result)

InitBatch ==
    /\ InitCall(SeqsUpTo(Names, MaxProviders))
    /\ dedupe_flag \in BOOLEAN
    /\ results = [i \in 1..Len(providers) |-> NotReturned]
    /\ outcome = Pending
    /\ done_order = <<>>
    /\ PaperIdle /\ DedupeIdle /\ StreamIdle /\ RestIdle

\* provider.search yields its next paper, and the comprehension keeps it
Collect(i) ==
    /\ pc[i] = "searching"
    /\ TotalYielded < MaxYield
    /\ yielded' = [yielded EXCEPT ![i] = Append(@, Catalogue(Len(yielded[i]) + 1))]
    /\ UNCHANGED <<providers, on_error, pc, streamVars, batchVars, paperVars, dedupeVars, restVars>>

\* line 85: the client is closed and the task returns its papers
Return(i) ==
    /\ pc[i] = "closing"
    /\ pc' = [pc EXCEPT ![i] = "done"]
    /\ results' = [results EXCEPT ![i] = FetchResult(providers[i], yielded[i], NoError)]
    /\ done_order' = Append(done_order, i)
    /\ UNCHANGED <<providers, on_error, yielded, dedupe_flag, outcome,
                   streamVars, paperVars, dedupeVars, restVars>>

\* line 87: the client is closed and the task returns the provider's error
ReturnFailed(i) ==
    /\ pc[i] = "closing_err"
    /\ pc' = [pc EXCEPT ![i] = "failed"]
    /\ results' = [results EXCEPT ![i] = FetchResult(providers[i], <<>>, ErrorOf(i))]
    /\ done_order' = Append(done_order, i)
    /\ UNCHANGED <<providers, on_error, yielded, dedupe_flag, outcome,
                   streamVars, paperVars, dedupeVars, restVars>>

\* gather is through: lines 89-108
Aggregate ==
    /\ outcome.kind = "pending"
    /\ \A i \in Tasks : Finished(i)
    /\ outcome' = Aggregated(Gather(results, done_order), on_error, dedupe_flag)
    /\ UNCHANGED <<callVars, dedupe_flag, results, done_order,
                   streamVars, paperVars, dedupeVars, restVars>>

NextBatch ==
    \/ \E i \in Tasks : Enter(i)
    \/ \E i \in Tasks : Collect(i)
    \/ \E i \in Tasks : SearchEnds(i)
    \/ \E i \in Tasks : SearchRaises(i)
    \/ \E i \in Tasks : Return(i)
    \/ \E i \in Tasks : ReturnFailed(i)
    \/ Aggregate

SpecBatch == InitBatch /\ [][NextBatch]_vars

------------------------------------------------------------------------------
(* SpecTake: take(n, aiter) driven by a caller that asks for item after     *)
(* item.  The source is a finite iterator over a list of items.             *)

MaxSource == 3          \* longest source list given to take
MaxTake == 3            \* largest n given to take

Items == {"x", "y"}

BreakTestAfterNPlusOne(c, n) == c > n

\* line 22: the test that leaves the loop
BreakTest(c, n) == c >= n

InitTake ==
    /\ take_n \in 0..MaxTake
    /\ aiter \in SeqsUpTo(Items, MaxSource)
    /\ count = 0
    /\ tpc = "created"
    /\ pulled = <<>>
    /\ taken = <<>>
    /\ PaperIdle /\ DedupeIdle /\ CallIdle /\ StreamIdle /\ BatchIdle /\ S2Idle
    /\ EntryIdle /\ LaterIdle

\* The caller's next __anext__ on take.  A generator suspended at the yield
\* of line 24 first runs line 25; then the async for asks aiter for its next
\* item, and only with that item in hand line 22 tests the counter.
TakeNext ==
    /\ tpc \in {"created", "yielded"}
    /\ LET c == IF tpc = "yielded" THEN count + 1 ELSE count
       IN /\ count' = c
          /\ IF aiter = <<>>
             THEN /\ tpc' = "ended"
                  /\ UNCHANGED <<aiter, pulled, taken>>
             ELSE /\ aiter' = Tail(aiter)
                  /\ pulled' = Append(pulled, Head(aiter))
                  /\ IF BreakTest(c, take_n)
                     THEN tpc' = "ended" /\ UNCHANGED taken
                     ELSE tpc' = "yielded" /\ taken' = Append(taken, Head(aiter))
    /\ UNCHANGED <<take_n, paperVars, dedupeVars, callVars, streamVars, batchVars,
                   s2Vars, entryVars, laterVars>>

NextTake == TakeNext

SpecTake == InitTake /\ [][NextTake]_vars

(* SpecTakeStream: take(n, s) over the streaming search s with              *)
(* on_error='fail', as the command line layers them (cli.py 41-49).  The    *)
(* provider tasks run as in SpecStream; the only reader of s is take.       *)

InitTakeStream ==
    /\ InitCall({[i \in 1..n |-> TurnName(i)] : n \in 1..MaxProviders})
    /\ on_error = "fail"
    /\ queue = <<>>
    /\ active_tasks = Len(providers)
    /\ cstate = "reading"
    /\ consumed = <<>>
    /\ take_n \in 0..MaxTake
    /\ aiter = <<>>
    /\ count = 0
    /\ tpc = "created"
    /\ pulled = <<>>
    /\ taken = <<>>
    /\ PaperIdle /\ DedupeIdle /\ BatchIdle /\ S2Idle /\ EntryIdle /\ LaterIdle

\* count as line 25 leaves it: a take suspended at its yield has yielded one
\* item more than it has counted
TakeCounted == IF tpc = "yielded" /\ count < Len(taken) THEN count + 1 ELSE count

\* The caller's next __anext__ on a take suspended at its yield, while the
\* queue of s is empty: line 25 runs, the async for asks s for its next item
\* and s waits in queue.get() (search.py 60).
TakeResume ==
    /\ tpc = "yielded" /\ count < Len(taken)
    /\ cstate = "reading"
    /\ queue = <<>>
    /\ count' = TakeCounted
    /\ UNCHANGED <<callVars, streamVars, take_n, aiter, tpc, pulled, taken,
                   paperVars, dedupeVars, batchVars, s2Vars, entryVars, laterVars>>

\* The caller's next __anext__ on take, once s has an item to hand out: a
\* take suspended at its yield runs line 25 if it has not yet, the async for
\* asks s for its next item, s reads the head of the queue (search.py 60-66), and take
\* tests the counter with that item in hand.  An exception of s leaves take.
TakeGet ==
    /\ tpc \in {"created", "yielded"}
    /\ cstate = "reading"
    /\ queue # <<>>
    /\ LET item == Head(queue)
           c == TakeCounted
       IN /\ count' = c
          /\ consumed' = Append(consumed, item)
          /\ queue' = Tail(queue)
          /\ cstate' = ConsumerAfter(item)
          /\ CASE item.kind = "none" ->
                    tpc' = "ended" /\ UNCHANGED <<pulled, taken>>
               [] item.kind = "error" ->
                    tpc' = "raised" /\ UNCHANGED <<pulled, taken>>
               [] OTHER ->
                    /\ pulled' = Append(pulled, item)
                    /\ IF BreakTest(c, take_n)
                       THEN tpc' = "ended" /\ UNCHANGED taken
                       ELSE tpc' = "yielded" /\ taken' = Append(taken, item)
    /\ UNCHANGED <<callVars, active_tasks, take_n, aiter, paperVars, dedupeVars,
                   batchVars, s2Vars, entryVars, laterVars>>

NextTakeStream ==
    \/ \E i \in Tasks : Enter(i)
    \/ \E i \in Tasks : Yield(i)
    \/ \E i \in Tasks : SearchEnds(i)
    \/ \E i \in Tasks : SearchRaises(i)
    \/ \E i \in Tasks : Leave(i)
    \/ \E i \in Tasks : LeaveFailed(i)
    \/ TakeResume
    \/ TakeGet

SpecTakeStream == InitTakeStream /\ [][NextTakeStream]_vars

------------------------------------------------------------------------------
(* The Query AST (query/combinators.py).  An int | None is a record with    *)
(* the fields some and val, as a str | None is.                             *)

NoNum == [some |-> FALSE, val |-> 0]
Num(k) == [some |-> TRUE, val |-> k]

\* Python truthiness of an int | None: None and 0 are falsy.
TruthyNum(x) == x.some /\ x.val # 0

\* a or b, for two int | None
OrElse(a, b) == IF TruthyNum(a) THEN a ELSE b

Field(f, v) == [type |-> "Field", field |-> f, value |-> v]
And(l, r) == [type |-> "And", left |-> l, right |-> r]
Or(l, r) == [type |-> "Or", left |-> l, right |-> r]
Not(o) == [type |-> "Not", operand |-> o]
YearRange(s, e) == [type |-> "YearRange", start |-> s, end |-> e]
CitationRange(lo, hi) == [type |-> "CitationRange", min |-> lo, max |-> hi]

NoQuery == [type |-> "None"]

\* extract_citation_range: the first CitationRange node met in pre-order,
\* left to right through And, Or and Not; NoQuery if there is none
RECURSIVE extract_citation_range(_)
extract_citation_range(q) ==
    CASE q.type = "CitationRange" -> q
      [] q.type \in {"And", "Or"} ->
            LET l == extract_citation_range(q.left)
            IN IF l # NoQuery THEN l ELSE extract_citation_range(q.right)
      [] q.type = "Not" -> extract_citation_range(q.operand)
      [] OTHER -> NoQuery

\* remove_citation_range: the tree without its CitationRange nodes; an And
\* or Or that loses an operand collapses to the other one, a Not that loses
\* its operand is removed, and NoQuery says that nothing remains
RECURSIVE remove_citation_range(_)
remove_citation_range(q) ==
    CASE q.type = "CitationRange" -> NoQuery
      [] q.type \in {"And", "Or"} ->
            LET l == remove_citation_range(q.left)
                r == remove_citation_range(q.right)
            IN IF l = NoQuery THEN r
               ELSE IF r = NoQuery THEN l
               ELSE [type |-> q.type, left |-> l, right |-> r]
      [] q.type = "Not" ->
            LET o == remove_citation_range(q.operand)
            IN IF o = NoQuery THEN NoQuery ELSE Not(o)
      [] OTHER -> q

------------------------------------------------------------------------------
(* SemanticScholar: the query translator                                    *)

\* sep.join(terms)
RECURSIVE Join(_, _)
Join(terms, sep) ==
    IF terms = <<>> THEN <<>>
    ELSE IF Len(terms) = 1 THEN terms[1]
    ELSE terms[1] \o sep \o Join(Tail(terms), sep)

Space == <<" ">>

\* A Not case that negates the terms and returns no year range.
NotCaseDropsYears(o) ==
    [terms |-> [k \in 1..Len(o.terms) |-> <<"-">> \o o.terms[k]],
     ys |-> NoNum, ye |-> NoNum]

\* the Not case of _collect_terms, lines 112-118, given what the operand
\* collected
NotCase(o) ==
    [terms |-> [k \in 1..Len(o.terms) |-> <<"-">> \o o.terms[k]],
     ys |-> o.ys, ye |-> o.ye]

\* _collect_terms: the terms it appends, and the year range it returns
RECURSIVE _collect_terms(_)
_collect_terms(q) ==
    CASE q.type = "Field" /\ q.field = "title" ->
            [terms |-> << <<"\"">> \o q.value \o <<"\"">> >>, ys |-> NoNum, ye |-> NoNum]
      [] q.type = "Field" /\ q.field \in {"author", "abstract", "keyword", "fulltext", "doi"} ->
            [terms |-> <<q.value>>, ys |-> NoNum, ye |-> NoNum]
      [] q.type = "And" ->
            LET l == _collect_terms(q.left)
                r == _collect_terms(q.right)
            IN [terms |-> l.terms \o r.terms,
                ys |-> OrElse(l.ys, r.ys), ye |-> OrElse(l.ye, r.ye)]
      [] q.type = "Or" ->
            LET l == _collect_terms(q.left)
                r == _collect_terms(q.right)
            IN [terms |-> IF l.terms # <<>> /\ r.terms # <<>>
                          THEN << <<"(">> \o Join(l.terms, Space) \o <<" ", "|", " ">>
                                  \o Join(r.terms, Space) \o <<")">> >>
                          ELSE IF l.terms # <<>> THEN l.terms
                          ELSE r.terms,
                ys |-> OrElse(l.ys, r.ys), ye |-> OrElse(l.ye, r.ye)]
      [] q.type = "Not" ->
            NotCase(_collect_terms(q.operand))
      [] q.type = "YearRange" ->
            [terms |-> <<>>, ys |-> q.start, ye |-> q.end]
      [] OTHER ->
            [terms |-> <<>>, ys |-> NoNum, ye |-> NoNum]

\* _translate_query: (query_string, year_start, year_end)
_translate_query(q) ==
    LET c == _collect_terms(q)
    IN [query_str |-> Join(c.terms, Space), year_start |-> c.ys, year_end |-> c.ye]

\* the year parameter of lines 329-332, None when it is not set
YearParam(ys, ye) ==
    IF TruthyNum(ys)
    THEN IF ~TruthyNum(ye) THEN Str(IntToStr(ys.val) \o <<"-">>)
         ELSE Str(IntToStr(ys.val) \o <<"-">> \o IntToStr(ye.val))
    ELSE IF TruthyNum(ye) THEN Str(<<"-">> \o IntToStr(ye.val))
    ELSE None

PAGE_SIZE == 100
MAX_TOTAL_RESULTS == 1000

\* the params dict of fetch_pages, lines 322-336
Params(query_str, citation_filter, ys, ye, off) ==
    [query |-> query_str,
     limit |-> PAGE_SIZE,
     minCitationCount |-> IF citation_filter # NoQuery /\ citation_filter.min.some
                          THEN citation_filter.min ELSE NoNum,
     year |-> YearParam(ys, ye),
     offset |-> off]

------------------------------------------------------------------------------
(* SpecS2: one call of _search_api or of _search_by_author by a caller that *)
(* reads the stream to its end, as the comprehensions of search.py do, with *)
(* a server that answers every request as it likes.                         *)

max_retries == 3
INITIAL_RETRY_DELAY == 1
AUTHOR_PAGE_SIZE == 100

\* ---- what the server sends

\* a record of the data list: title and citationCount may be missing
PageItem(pat, j) ==
    IF pat = "mixed"
    THEN [title |-> IF j % 10 = 0 THEN None ELSE Str(<<"t">>),
          citationCount |-> <<NoNum, Num(0), Num(3), Num(7)>>[(j % 4) + 1]]
    ELSE [title |-> Str(<<"t">>), citationCount |-> Num(7)]

PageData(len, pat) == [j \in 1..len |-> PageItem(pat, j)]

\* a page body: len(data), what data holds, and total (0: no total key)
Bodies == [len : {0, 40, 100}, pat : {"mixed", "high"}, total : {0, 150, 5000}]

\* the body of an author lookup: no author, an author without authorId, or
\* an author with one
AuthorBodies == {"none", "no_id", "found"}

\* an answer that is no success: an error status, or status 0 for a request
\* that httpx gives up on with an exception that is no HTTPStatusError
ErrorStatuses == {404, 429, 500, 0}

\* ---- _parse_paper and the filter of _search_api

NoPaper == [is_none |-> TRUE, title |-> <<>>, citations_count |-> NoNum]

_parse_paper(paper_data) ==
    IF ~Truthy(paper_data.title) THEN NoPaper
    ELSE [is_none |-> FALSE, title |-> paper_data.title.val,
          citations_count |-> paper_data.citationCount]

PassesEveryPaper(paper, citation_filter) == TRUE

\* passes_max_citations, lines 358-364
passes_max_citations(paper, citation_filter) ==
    IF citation_filter # NoQuery /\ citation_filter.max.some
    THEN paper.citations_count.some
         /\ paper.citations_count.val <= citation_filter.max.val
    ELSE TRUE

\* the stream of lines 366-374 over one page: the Papers it surfaces
SurfacedOfPage(data, citation_filter) ==
    LET parsed == [j \in 1..Len(data) |-> _parse_paper(data[j])]
        Keep(p) == ~p.is_none /\ passes_max_citations(p, citation_filter)
    IN SelectSeq(parsed, Keep)

\* the loop of lines 283-286 over one page
SurfacedOfAuthorPage(data) ==
    LET parsed == [j \in 1..Len(data) |-> _parse_paper(data[j])]
        Keep(p) == ~p.is_none
    IN SelectSeq(parsed, Keep)

CitesOf(papers) == {papers[j].citations_count : j \in 1..Len(papers)}

\* ---- inputs

T == Field("title", <<"x">>)
Ranges == {CitationRange(Num(2), Num(5)), CitationRange(Num(2), NoNum),
           CitationRange(NoNum, Num(0))}
Leaves == {T, Field("author", <<"y">>), YearRange(Num(2020), NoNum)} \cup Ranges

S2Queries ==
    Leaves
    \cup {And(T, c) : c \in Ranges}
    \cup {Or(c, T) : c \in Ranges}
    \cup {And(T, Not(c)) : c \in Ranges}
    \cup {And(YearRange(NoNum, Num(2021)), c) : c \in Ranges}
    \cup {And(And(T, c), d) : c, d \in Ranges}

\* ---- requests

AuthorRequest(name) == [kind |-> "author", author |-> name, params |-> <<>>]
AuthorPageRequest(off) == [kind |-> "author_papers", author |-> <<>>,
                           params |-> [offset |-> off, limit |-> AUTHOR_PAGE_SIZE]]
SearchRequest(q, off) ==
    LET cf == extract_citation_range(q)
        t  == _translate_query(remove_citation_range(q))
    IN [kind |-> "search", author |-> <<>>,
        params |-> Params(t.query_str, cf, t.year_start, t.year_end, off)]

\* _fetch_with_retry is called: lines 210-215, up to the first get
CallFetch(req) ==
    /\ request' = req
    /\ attempt' = 0
    /\ retry_delay' = INITIAL_RETRY_DELAY
    /\ sent' = 1
    /\ call_log' = <<>>
    /\ sleeps' = <<>>
    /\ s2pc' = "request"

\* the generator returns or raises; the locals of the last call stay as they are
Finish(how) ==
    /\ s2pc' = how
    /\ UNCHANGED <<request, attempt, retry_delay, sent, sleeps>>

InitS2 ==
    /\ method \in {"_search_api", "_search_by_author"}
    /\ s2_query \in (IF method = "_search_api" THEN S2Queries
                     ELSE {Field("author", <<"y">>)})
    /\ max_results \in {100, 250}
    /\ s2pc = "created"
    /\ request = <<>>
    /\ offset = 0
    /\ page_offsets = <<>>
    /\ attempt = 0 /\ retry_delay = 0 /\ sent = 0 /\ call_log = <<>> /\ sleeps = <<>>
    /\ last_page_len = 0 - 1
    /\ surfaced = 0
    /\ surfaced_cites = {}
    /\ PaperIdle /\ DedupeIdle /\ CallIdle /\ StreamIdle /\ BatchIdle /\ TakeIdle
    /\ EntryIdle /\ LaterIdle

S2Others == <<paperVars, dedupeVars, callVars, streamVars, batchVars, takeVars, entryVars,
              laterVars>>

\* The caller's first __anext__: _search_api up to its first request (lines
\* 300-343), or _search_by_author up to the author lookup (lines 244-254).
S2Start ==
    /\ s2pc = "created"
    /\ IF method = "_search_by_author"
       THEN /\ CallFetch(AuthorRequest(s2_query.value))
            /\ UNCHANGED <<offset, page_offsets>>
       ELSE LET without == remove_citation_range(s2_query)
            IN IF without = NoQuery \/ _translate_query(without).query_str = <<>>
               THEN /\ s2pc' = "ended"
                    /\ UNCHANGED <<request, attempt, retry_delay, sent, call_log,
                                   sleeps, offset, page_offsets>>
               ELSE /\ CallFetch(SearchRequest(s2_query, 0))
                    /\ offset' = 0
                    /\ page_offsets' = <<0>>
    /\ UNCHANGED <<method, s2_query, max_results, last_page_len, surfaced,
                   surfaced_cites, S2Others>>

\* lines 346-356: a page of fetch_pages has arrived and its papers have gone
\* to the caller; the loop goes on to the next request or ends
AfterSearchPage(body) ==
    LET papers == SurfacedOfPage(PageData(body.len, body.pat),
                                 extract_citation_range(s2_query))
        next   == offset + PAGE_SIZE
    IN /\ surfaced' = surfaced + Len(papers)
       /\ surfaced_cites' = surfaced_cites \cup CitesOf(papers)
       /\ last_page_len' = body.len
       /\ offset' = next
       /\ IF next >= MAX_TOTAL_RESULTS \/ next >= body.total \/ body.len < PAGE_SIZE
             \/ ~(next < MAX_TOTAL_RESULTS)
          THEN /\ Finish("ended")
               /\ call_log' = Append(call_log, 200)
               /\ UNCHANGED page_offsets
          ELSE /\ CallFetch(SearchRequest(s2_query, next))
               /\ page_offsets' = Append(page_offsets, next)

\* lines 279-293: a page of _search_by_author has arrived
AfterAuthorPage(body) ==
    LET papers == SurfacedOfAuthorPage(PageData(body.len, body.pat))
    IN /\ last_page_len' = body.len
       /\ surfaced' = surfaced + Len(papers)
       /\ surfaced_cites' = surfaced_cites \cup CitesOf(papers)
       /\ IF body.len = 0 \/ body.len < AUTHOR_PAGE_SIZE
          THEN /\ Finish("ended")
               /\ call_log' = Append(call_log, 200)
               /\ UNCHANGED <<offset, page_offsets>>
          ELSE /\ offset' = offset + AUTHOR_PAGE_SIZE
               /\ IF offset + AUTHOR_PAGE_SIZE >= MAX_TOTAL_RESULTS
                  THEN /\ Finish("ended")
                       /\ call_log' = Append(call_log, 200)
                       /\ UNCHANGED page_offsets
                  ELSE /\ CallFetch(AuthorPageRequest(offset + AUTHOR_PAGE_SIZE))
                       /\ page_offsets' = Append(page_offsets, offset + AUTHOR_PAGE_SIZE)

\* lines 256-268: the author lookup has been answered
AfterAuthorLookup(authors) ==
    /\ UNCHANGED <<last_page_len, surfaced, surfaced_cites>>
    /\ IF authors # "found"
       THEN /\ Finish("ended")
            /\ call_log' = Append(call_log, 200)
            /\ UNCHANGED <<offset, page_offsets>>
       ELSE /\ CallFetch(AuthorPageRequest(0))
            /\ offset' = 0
            /\ page_offsets' = <<0>>

\* The server answers a page request with 200: lines 231-232, and the caller
\* of _fetch_with_retry up to its next request.
S2Page(body) ==
    /\ s2pc = "request"
    /\ request.kind \in {"search", "author_papers"}
    /\ IF request.kind = "search" THEN AfterSearchPage(body) ELSE AfterAuthorPage(body)
    /\ UNCHANGED <<method, s2_query, max_results, S2Others>>

\* The server answers the author lookup with 200.
S2Authors(authors) ==
    /\ s2pc = "request"
    /\ request.kind = "author"
    /\ AfterAuthorLookup(authors)
    /\ UNCHANGED <<method, s2_query, max_results, S2Others>>

\* line 218: a 429 is retried while attempts are left
RetriesAfter429(a) == a < max_retries - 1

\* The request in flight fails: lines 217-238.
S2Fail(status) ==
    /\ s2pc = "request"
    /\ call_log' = Append(call_log, status)
    /\ IF status = 0
       THEN Finish("raised")
       ELSE IF status = 429 /\ RetriesAfter429(attempt)
       THEN /\ s2pc' = "sleep"
            /\ sleeps' = Append(sleeps, [attempt |-> attempt + 1, delay |-> retry_delay])
            /\ UNCHANGED <<request, attempt, retry_delay, sent>>
       ELSE IF attempt = max_retries - 1
       THEN Finish("raised")
       ELSE /\ attempt' = attempt + 1
            /\ sent' = sent + 1
            /\ s2pc' = "request"
            /\ UNCHANGED <<request, retry_delay, sleeps>>
    /\ UNCHANGED <<method, s2_query, max_results, offset, page_offsets, last_page_len,
                   surfaced, surfaced_cites, S2Others>>

\* lines 225-227: the sleep is over, the delay doubles, the request goes again
S2Wake ==
    /\ s2pc = "sleep"
    /\ retry_delay' = retry_delay * 2
    /\ attempt' = attempt + 1
    /\ sent' = sent + 1
    /\ s2pc' = "request"
    /\ UNCHANGED <<method, s2_query, max_results, request, offset, page_offsets,
                   call_log, sleeps, last_page_len, surfaced, surfaced_cites, S2Others>>

NextS2 ==
    \/ S2Start
    \/ \E body \in Bodies : S2Page(body)
    \/ \E authors \in AuthorBodies : S2Authors(authors)
    \/ \E status \in ErrorStatuses : S2Fail(status)
    \/ S2Wake

SpecS2 == InitS2 /\ [][NextS2]_vars

------------------------------------------------------------------------------
(* The query parser (query/parser.py), over the tokens of the query string. *)
(* A parse gives [ok, q, rest]: whether it succeeded, the Query, and the    *)
(* tokens left over.                                                        *)

FieldIdents == {"TITLE", "ABSTRACT", "AUTHOR", "KEYWORD", "DOI", "ALL", "TITLE-ABS-KEY"}
Comparators == {"=", ">", "<", ">=", "<="}

\* the INTEGER tokens and their values
IntegerTokens ==
    ("0" :> 0) @@ ("1" :> 1) @@ ("7" :> 7) @@ ("1999" :> 1999) @@ ("2000" :> 2000)
    @@ ("2019" :> 2019) @@ ("2020" :> 2020) @@ ("2021" :> 2021) @@ ("2022" :> 2022)
    @@ ("9999" :> 9999)

ParseFailed == [ok |-> FALSE, q |-> NoQuery, rest |-> <<>>]
Parsed(q, rest) == [ok |-> TRUE, q |-> q, rest |-> rest]

\* field_call: the node of IDENT(text)
FieldCall(ident, text) ==
    CASE ident = "TITLE"    -> Field("title", <<text>>)
      [] ident = "ABSTRACT" -> Field("abstract", <<text>>)
      [] ident = "AUTHOR"   -> Field("author", <<text>>)
      [] ident = "KEYWORD"  -> Field("keyword", <<text>>)
      [] ident = "DOI"      -> Field("doi", <<text>>)
      [] ident = "ALL"      -> Field("fulltext", <<text>>)
      [] OTHER -> Or(Or(Field("title", <<text>>), Field("abstract", <<text>>)),
                     Field("keyword", <<text>>))

\* A translation that keeps the written year as the bound of every range.
PubYearKeepsYear(cmpr, y) ==
    CASE cmpr = "="  -> YearRange(Num(y), Num(y))
      [] cmpr \in {">", ">="} -> YearRange(Num(y), NoNum)
      [] OTHER       -> YearRange(NoNum, Num(y))

\* pubyear_expr: the YearRange of PUBYEAR comparator year
PubYear(cmpr, y) ==
    CASE cmpr = "="  -> YearRange(Num(y), Num(y))
      [] cmpr = ">"  -> YearRange(Num(y + 1), NoNum)
      [] cmpr = "<"  -> YearRange(NoNum, Num(y - 1))
      [] cmpr = ">=" -> YearRange(Num(y), NoNum)
      [] OTHER       -> YearRange(NoNum, Num(y))

\* The grammar rules, as one recursive operator: Parse(rule, acc, toks)
\* parses toks by the rule named; acc is the left operand read so far, for
\* the two rules that read the (AND not_expr)* and (OR and_expr)* tails.
RECURSIVE Parse(_, _, _)
Parse(rule, acc, toks) ==
    CASE rule = "primary" ->
            \* primary := field_call | pubyear_expr | "(" query ")"
            IF toks = <<>> THEN ParseFailed
            ELSE IF toks[1] \in FieldIdents
            THEN IF Len(toks) >= 4 /\ toks[2] = "(" /\ toks[3] \notin {"(", ")"}
                    /\ toks[4] = ")"
                 THEN Parsed(FieldCall(toks[1], toks[3]), SubSeq(toks, 5, Len(toks)))
                 ELSE ParseFailed
            ELSE IF toks[1] = "PUBYEAR"
            THEN IF Len(toks) >= 3 /\ toks[2] \in Comparators
                    /\ toks[3] \in DOMAIN IntegerTokens
                 THEN Parsed(PubYear(toks[2], IntegerTokens[toks[3]]),
                             SubSeq(toks, 4, Len(toks)))
                 ELSE ParseFailed
            ELSE IF toks[1] = "("
            THEN LET r == Parse("or_expr", NoQuery, Tail(toks))
                 IN IF r.ok /\ r.rest # <<>> /\ r.rest[1] = ")"
                    THEN Parsed(r.q, Tail(r.rest))
                    ELSE ParseFailed
            ELSE ParseFailed
      [] rule = "not_expr" ->
            \* not_expr := [NOT] primary
            IF toks # <<>> /\ toks[1] = "NOT"
            THEN LET r == Parse("primary", NoQuery, Tail(toks))
                 IN IF r.ok THEN Parsed(Not(r.q), r.rest) ELSE ParseFailed
            ELSE Parse("primary", NoQuery, toks)
      [] rule = "and_expr" ->
            \* and_expr := not_expr (AND not_expr)*
            LET r == Parse("not_expr", NoQuery, toks)
            IN IF r.ok THEN Parse("and_tail", r.q, r.rest) ELSE ParseFailed
      [] rule = "and_tail" ->
            \* left-associative: the operand read so far is the left operand
            IF toks # <<>> /\ toks[1] = "AND"
            THEN LET r == Parse("not_expr", NoQuery, Tail(toks))
                 IN IF r.ok THEN Parse("and_tail", And(acc, r.q), r.rest)
                    ELSE ParseFailed
            ELSE Parsed(acc, toks)
      [] rule = "or_expr" ->
            \* or_expr := and_expr (OR and_expr)*
            LET r == Parse("and_expr", NoQuery, toks)
            IN IF r.ok THEN Parse("or_tail", r.q, r.rest) ELSE ParseFailed
      [] OTHER ->
            IF toks # <<>> /\ toks[1] = "OR"
            THEN LET r == Parse("and_expr", NoQuery, Tail(toks))
                 IN IF r.ok THEN Parse("or_tail", Or(acc, r.q), r.rest)
                    ELSE ParseFailed
            ELSE Parsed(acc, toks)

\* parse: the whole string must be one query; otherwise QuerySyntaxError
parse(toks) ==
    LET r == Parse("or_expr", NoQuery, toks)
    IN IF r.ok /\ r.rest = <<>> THEN r ELSE ParseFailed

------------------------------------------------------------------------------
(* SpecEntry: search() is called, and what it returned is awaited or        *)
(* iterated.                                                                *)

\* query strings that are queries of the grammar
WellFormed ==
    { <<"TITLE", "(", "x", ")">>,
      <<"TITLE", "(", "x", ")", "AND", "PUBYEAR", ">", "2020">>,
      <<"NOT", "(", "AUTHOR", "(", "y", ")", "OR", "ALL", "(", "x", ")", ")">>,
      <<"TITLE-ABS-KEY", "(", "x", ")">> }

\* query strings that are not: the empty query, an unmatched parenthesis, an
\* unknown field identifier, a PUBYEAR operand that is no number, a dangling
\* operator, a group that is not closed
Malformed ==
    { <<>>,
      <<"TITLE", "(", "x">>,
      <<"FOO", "(", "x", ")">>,
      <<"PUBYEAR", ">", "x">>,
      <<"TITLE", "(", "x", ")", "AND">>,
      <<"(", "TITLE", "(", "x", ")">> }

StrArg(toks) == [is_str |-> TRUE, text |-> toks, ast |-> NoQuery]
QueryArg(q) == [is_str |-> FALSE, text |-> <<>>, ast |-> q]

SearchParsesLate(arg) ==
    [raised |-> FALSE, query |-> arg.ast, parses |-> 0]

\* search(), lines 166-172: whether the call raises, the Query it hands on,
\* and the calls of parse it makes
SearchBody(arg) ==
    IF arg.is_str
    THEN LET r == parse(arg.text)
         IN [raised |-> ~r.ok, query |-> r.q, parses |-> 1]
    ELSE [raised |-> FALSE, query |-> arg.ast, parses |-> 0]

InitEntry ==
    /\ query_arg \in {StrArg(t) : t \in WellFormed \cup Malformed} \cup {QueryArg(T)}
    /\ stream_flag \in BOOLEAN
    /\ call = "uncalled"
    /\ parse_calls = 0
    /\ handed_query = NoQuery
    /\ providers \in {[i \in 1..n |-> TurnName(i)] : n \in 0..MaxProviders}
    /\ on_error \in Policies
    /\ pc = <<>>
    /\ yielded = <<>>
    /\ PaperIdle /\ DedupeIdle /\ StreamIdle /\ BatchIdle /\ TakeIdle /\ S2Idle
    /\ LaterIdle

EntryOthers == <<paperVars, dedupeVars, takeVars, s2Vars, laterVars>>

\* search(query, providers, ..., stream=...) is called and returns or raises
SearchCall ==
    /\ call = "uncalled"
    /\ LET r == SearchBody(query_arg)
       IN /\ call' = IF r.raised THEN "raised" ELSE "returned"
          /\ parse_calls' = parse_calls + r.parses
          /\ handed_query' = r.query
    /\ UNCHANGED <<query_arg, stream_flag, callVars, streamVars, batchVars, EntryOthers>>

\* The caller awaits the coroutine or asks the generator for its first item:
\* _search_batch runs to its gather (lines 74-89), _search_stream to its
\* first queue.get() (lines 34-63); the tasks exist and have not run yet.
Start ==
    /\ call = "returned"
    /\ call' = "started"
    /\ pc' = [i \in 1..Len(providers) |-> "created"]
    /\ yielded' = [i \in 1..Len(providers) |-> <<>>]
    /\ IF stream_flag
       THEN /\ queue' = <<>>
            /\ active_tasks' = Len(providers)
            /\ cstate' = "reading"
            /\ UNCHANGED <<consumed, batchVars>>
       ELSE /\ results' = [i \in 1..Len(providers) |-> NotReturned]
            /\ outcome' = Pending
            /\ UNCHANGED <<dedupe_flag, done_order, streamVars>>
    /\ UNCHANGED <<query_arg, stream_flag, parse_calls, handed_query, providers,
                   on_error, EntryOthers>>

NextEntry ==
    \/ SearchCall
    \/ Start
    \/ call = "started" /\ \E i \in Tasks : Enter(i)

SpecEntry == InitEntry /\ [][NextEntry]_vars

------------------------------------------------------------------------------
(* The fulltext analysis utilities (query/combinators.py)                   *)

\* extract_fulltext_term: the value of the first Field(fulltext, ...) leaf
\* met in pre-order, left to right through And, Or and Not; None without one
RECURSIVE extract_fulltext_term(_)
extract_fulltext_term(q) ==
    CASE q.type = "Field" /\ q.field = "fulltext" -> Str(q.value)
      [] q.type \in {"And", "Or"} ->
            LET l == extract_fulltext_term(q.left)
            IN IF l # None THEN l ELSE extract_fulltext_term(q.right)
      [] q.type = "Not" -> extract_fulltext_term(q.operand)
      [] OTHER -> None

\* remove_fulltext: the tree without its fulltext leaves; an And or Or that
\* loses an operand collapses to the other one, a Not that loses its operand
\* is removed, and NoQuery says that nothing remains
RECURSIVE remove_fulltext(_)
remove_fulltext(q) ==
    CASE q.type = "Field" /\ q.field = "fulltext" -> NoQuery
      [] q.type \in {"And", "Or"} ->
            LET l == remove_fulltext(q.left)
                r == remove_fulltext(q.right)
            IN IF l = NoQuery THEN r
               ELSE IF r = NoQuery THEN l
               ELSE [type |-> q.type, left |-> l, right |-> r]
      [] q.type = "Not" ->
            LET o == remove_fulltext(q.operand)
            IN IF o = NoQuery THEN NoQuery ELSE Not(o)
      [] OTHER -> q

------------------------------------------------------------------------------
(* SpecFallback: one call of _search_with_fulltext_filter, read to its end; *)
(* the local index and the provider's _search_api answer as they like.      *)

MaxApiPapers == 3       \* papers _search_api yields to the fallback at most

FtLeaves == {Field("fulltext", <<"x">>), Field("fulltext", <<>>), T,
             YearRange(Num(2020), NoNum)}

FtQueries ==
    FtLeaves
    \cup {And(a, b) : a, b \in FtLeaves}
    \cup {Or(a, b) : a, b \in FtLeaves}
    \cup {Not(a) : a \in FtLeaves}
    \cup {And(Not(a), b) : a, b \in FtLeaves}

\* what FulltextIndex().search(term) can return
IndexAnswers == {{}, {<<"d">>}, {<<"d">>, <<"p">>}}

\* the Papers of _search_api: doi and extras.get("paper_id")
ApiPapers == [doi : {None, Str(<<"d">>), Str(<<"z">>)}, paper_id : {None, Str(<<"p">>)}]

ReturnsEarlyWithoutBase(term, base_query, matching_ids) ==
    ~Truthy(term) \/ matching_ids = {}

\* lines 42-62: the three early returns
ReturnsEarly(term, base_query, matching_ids) ==
    ~Truthy(term) \/ base_query = NoQuery \/ matching_ids = {}

\* line 73: paper.doi or paper.extras.get("paper_id")
PaperIdOf(paper) == IF Truthy(paper.doi) THEN paper.doi ELSE paper.paper_id

InitFallback ==
    /\ \E q \in FtQueries, mr \in {1, 2}, ids \in IndexAnswers :
          fb = [pc |-> "created", query |-> q, max_results |-> mr, matching_ids |-> ids,
                api_calls |-> <<>>, api_seen |-> 0, count |-> 0, out |-> <<>>]
    /\ EvIdle /\ ClIdle /\ DlIdle
    /\ PaperIdle /\ DedupeIdle /\ CallIdle /\ StreamIdle /\ BatchIdle
    /\ TakeIdle /\ S2Idle /\ EntryIdle

FbOthers == <<paperVars, dedupeVars, callVars, streamVars, batchVars,
              takeVars, s2Vars, entryVars, ev, cl, dl>>

\* the caller's first __anext__: lines 41-68, up to the call of _search_api
FbStart ==
    /\ fb.pc = "created"
    /\ LET term == extract_fulltext_term(fb.query)
           base_query == remove_fulltext(fb.query)
       IN IF ReturnsEarly(term, base_query, fb.matching_ids)
          THEN fb' = [fb EXCEPT !.pc = "ended"]
          ELSE fb' = [fb EXCEPT !.pc = "api",
                                !.api_calls = Append(@, [query |-> base_query,
                                                         max_results |-> fb.max_results * 3])]
    /\ UNCHANGED FbOthers

\* count as line 76 leaves it: a method suspended at the yield of line 75
\* has handed out one paper more than it has counted, and adds 1 when the
\* caller asks for the next paper
FbCounted == IF fb.count < Len(fb.out) THEN fb.count + 1 ELSE fb.count

\* the caller asks for the next paper and _search_api has none at hand: the
\* method runs line 76 and waits in _search_api
FbResume ==
    /\ fb.pc = "api"
    /\ fb.count < Len(fb.out)
    /\ fb' = [fb EXCEPT !.count = FbCounted]
    /\ UNCHANGED FbOthers

\* _search_api yields a paper: lines 68-75, after line 76 for a method that
\* was suspended at its yield.  A matching paper is yielded and not counted
\* yet.
FbPaper(paper) ==
    /\ fb.pc = "api"
    /\ fb.api_seen < MaxApiPapers
    /\ LET paper_id == PaperIdOf(paper)
       IN IF FbCounted >= fb.max_results
          THEN fb' = [fb EXCEPT !.pc = "ended", !.api_seen = @ + 1, !.count = FbCounted]
          ELSE IF Truthy(paper_id) /\ paper_id.val \in fb.matching_ids
          THEN fb' = [fb EXCEPT !.api_seen = @ + 1, !.count = FbCounted,
                                !.out = Append(@, paper)]
          ELSE fb' = [fb EXCEPT !.api_seen = @ + 1, !.count = FbCounted]
    /\ UNCHANGED FbOthers

\* _search_api is exhausted
FbApiEnds ==
    /\ fb.pc = "api"
    /\ fb' = [fb EXCEPT !.pc = "ended", !.count = FbCounted]
    /\ UNCHANGED FbOthers

NextFallback ==
    \/ FbStart
    \/ FbResume
    \/ \E paper \in ApiPapers : FbPaper(paper)
    \/ FbApiEnds

SpecFallback == InitFallback /\ [][NextFallback]_vars

------------------------------------------------------------------------------
(* Specifications of one function applied to one argument: ev holds the     *)
(* function's name, its argument and, once it has returned, its value.      *)

Called(fn, arg) == [pc |-> "called", fn |-> fn, arg |-> arg]
Returned(fn, arg, value) == [pc |-> "returned", fn |-> fn, arg |-> arg, value |-> value]

EvOthers == <<paperVars, dedupeVars, callVars, streamVars, batchVars,
              takeVars, s2Vars, entryVars, fb, cl, dl>>

EvOthersIdle ==
    /\ FbIdle /\ ClIdle /\ DlIdle
    /\ PaperIdle /\ DedupeIdle /\ CallIdle /\ StreamIdle /\ BatchIdle
    /\ TakeIdle /\ S2Idle /\ EntryIdle

(* SpecParse: parse(text) *)

PubYearStrings == {<<"PUBYEAR", c, y>> : c \in Comparators, y \in DOMAIN IntegerTokens}

InitParse ==
    /\ ev \in {Called("parse", t) : t \in PubYearStrings \cup WellFormed \cup Malformed}
    /\ EvOthersIdle

ParseReturns ==
    /\ ev.pc = "called" /\ ev.fn = "parse"
    /\ ev' = Returned("parse", ev.arg, parse(ev.arg))
    /\ UNCHANGED EvOthers

NextParse == ParseReturns

SpecParse == InitParse /\ [][NextParse]_vars

(* SpecCollect: Semantic Scholar's _collect_terms applied to a query, and   *)
(* the first request _search_api sends for that query, if it sends one.     *)

\* _search_api up to its first request, lines 303-336: no request at all for
\* a query that is citation-only or translates to an empty query string
FirstRequest(q) ==
    LET without == remove_citation_range(q)
    IN IF without = NoQuery \/ _translate_query(without).query_str = <<>>
       THEN <<>>
       ELSE SearchRequest(q, 0)

YearLeaves == {YearRange(Num(2020), NoNum), YearRange(NoNum, Num(2021)),
               YearRange(Num(2019), Num(2021))}
TermLeaves == {T, Field("author", <<"y">>)}

Operands ==
    LET L == YearLeaves \cup TermLeaves
    IN L \cup {And(a, b) : a, b \in L} \cup {Or(a, b) : a, b \in L}
         \cup {Not(a) : a \in L}

CollectQueries ==
    Operands
    \cup {Not(q) : q \in Operands}
    \cup {And(t, Not(y)) : t \in TermLeaves, y \in YearLeaves}

InitCollect ==
    /\ ev \in {Called("_collect_terms", q) : q \in CollectQueries}
    /\ EvOthersIdle

CollectReturns ==
    /\ ev.pc = "called" /\ ev.fn = "_collect_terms"
    /\ LET c == _collect_terms(ev.arg)
       IN ev' = Returned("_collect_terms", ev.arg,
                         [terms |-> c.terms, year_start |-> c.ys, year_end |-> c.ye,
                          request |-> FirstRequest(ev.arg)])
    /\ UNCHANGED EvOthers

NextCollect == CollectReturns

SpecCollect == InitCollect /\ [][NextCollect]_vars

------------------------------------------------------------------------------
(* SpecOpenAlex: OpenAlex's _build_params applied to a query                *)

AuthorFilter == <<"r", "a", "w", "_", "a", "u", "t", "h", "o", "r", "_", "n", "a", "m", "e", ".", "s", "e", "a", "r", "c", "h", ":">>
DoiFilter    == <<"d", "o", "i", ":">>
YearFilter   == <<"p", "u", "b", "l", "i", "c", "a", "t", "i", "o", "n", "_", "y", "e", "a", "r", ":">>

\* A Not case that also hands on the operand's search terms.
NotParamsKeepsSearch(o) ==
    [search_terms |-> o.search_terms,
     filters |-> [k \in 1..Len(o.filters) |-> <<"!">> \o o.filters[k]]]

\* the Not case of _collect_params, lines 53-58, given what the operand
\* collected into its own two lists
NotParams(o) ==
    [search_terms |-> <<>>,
     filters |-> [k \in 1..Len(o.filters) |-> <<"!">> \o o.filters[k]]]

\* _collect_params: what it appends to search_terms and to filters
RECURSIVE _collect_params(_)
_collect_params(q) ==
    CASE q.type = "Field" /\ q.field \in {"title", "abstract", "keyword", "fulltext"} ->
            [search_terms |-> <<q.value>>, filters |-> <<>>]
      [] q.type = "Field" /\ q.field = "author" ->
            [search_terms |-> <<>>, filters |-> <<AuthorFilter \o q.value>>]
      [] q.type = "Field" /\ q.field = "doi" ->
            [search_terms |-> <<>>, filters |-> <<DoiFilter \o q.value>>]
      [] q.type \in {"And", "Or"} ->
            LET l == _collect_params(q.left)
                r == _collect_params(q.right)
            IN [search_terms |-> l.search_terms \o r.search_terms,
                filters |-> l.filters \o r.filters]
      [] q.type = "Not" ->
            NotParams(_collect_params(q.operand))
      [] q.type = "YearRange" ->
            [search_terms |-> <<>>,
             filters |->
                IF TruthyNum(q.start) /\ TruthyNum(q.end)
                THEN IF q.start.val = q.end.val
                     THEN <<YearFilter \o IntToStr(q.start.val)>>
                     ELSE <<YearFilter \o IntToStr(q.start.val) \o <<"-">>
                            \o IntToStr(q.end.val)>>
                ELSE IF TruthyNum(q.start)
                THEN <<YearFilter \o <<">">> \o IntToStr(q.start.val - 1)>>
                ELSE IF TruthyNum(q.end)
                THEN <<YearFilter \o <<"<">> \o IntToStr(q.end.val + 1)>>
                ELSE <<>>]
      [] OTHER ->
            [search_terms |-> <<>>, filters |-> <<>>]

\* _build_params: (search_terms, filter_string)
_build_params(q) ==
    LET c == _collect_params(q)
    IN [search |-> Join(c.search_terms, Space), filter |-> Join(c.filters, <<",">>)]

SearchLeaves == {T, Field("abstract", <<"z">>), Field("keyword", <<"k">>),
                 Field("fulltext", <<"w">>)}
FilterLeaves == {Field("author", <<"y">>), Field("doi", <<"1", "/", "a">>),
                 YearRange(Num(2020), NoNum), YearRange(NoNum, Num(2021)),
                 YearRange(Num(2019), Num(2021)), YearRange(Num(2020), Num(2020))}

OpenAlexOperands ==
    LET L == SearchLeaves \cup FilterLeaves
    IN L \cup {And(a, b) : a \in {T, Field("author", <<"y">>)}, b \in L}
         \cup {Or(a, b) : a \in {T, Field("author", <<"y">>)}, b \in L}
         \cup {Not(a) : a \in L}

OpenAlexQueries ==
    OpenAlexOperands
    \cup {Not(q) : q \in OpenAlexOperands}
    \cup {And(q, Not(l)) : q \in OpenAlexOperands, l \in {T, Field("fulltext", <<"w">>)}}

InitOpenAlex ==
    /\ ev \in {Called("_build_params", q) : q \in OpenAlexQueries}
    /\ EvOthersIdle

BuildParamsReturns ==
    /\ ev.pc = "called" /\ ev.fn = "_build_params"
    /\ LET c == _collect_params(ev.arg)
           b == _build_params(ev.arg)
       IN ev' = Returned("_build_params", ev.arg,
                         [search_terms |-> c.search_terms, filters |-> c.filters,
                          search |-> b.search, filter |-> b.filter])
    /\ UNCHANGED EvOthers

NextOpenAlex == BuildParamsReturns

SpecOpenAlex == InitOpenAlex /\ [][NextOpenAlex]_vars

(* SpecPaperTriple: three Papers compared with one another by == *)

InitPaperTriple ==
    /\ ev \in {Called("__eq__", <<a, b, c>>) : a \in Paper, b \in Paper, c \in Paper}
    /\ EvOthersIdle

\* value[i][j] is the result of arg[i] == arg[j]
EqReturns ==
    /\ ev.pc = "called" /\ ev.fn = "__eq__"
    /\ ev' = Returned("__eq__", ev.arg,
                      [i \in 1..3 |-> [j \in 1..3 |-> PaperEq(ev.arg[i], ev.arg[j])]])
    /\ UNCHANGED EvOthers

NextPaperTriple == EqReturns

SpecPaperTriple == InitPaperTriple /\ [][NextPaperTriple]_vars

------------------------------------------------------------------------------
(* SpecClient: the HTTP client of a Provider object over the scoped         *)
(* searches of one call.  Every task runs `async with provider`, and the    *)
(* client is a field of the provider object: tasks of the same object read  *)
(* and write the same field.                                                *)

MaxRequests == 2

Objects  == {"A", "B"}
NoClient == 0

\* provider lists over the objects, one object named twice included
ObjectLists == {<<"A">>, <<"A", "B">>, <<"A", "A">>}

ClTasks == 1..Len(cl.providers)

InitClient ==
    /\ \E l \in ObjectLists :
         cl = [pc       |-> "running",
               providers |-> l,
               _client  |-> [o \in Objects |-> NoClient],
               made     |-> 0,
               closed   |-> {},
               task     |-> [i \in 1..Len(l) |-> "created"],
               own      |-> [i \in 1..Len(l) |-> NoClient],
               used     |-> [i \in 1..Len(l) |-> <<>>],
               error    |-> [i \in 1..Len(l) |-> FALSE]]
    /\ FbIdle /\ EvIdle /\ DlIdle
    /\ PaperIdle /\ DedupeIdle /\ CallIdle /\ StreamIdle /\ BatchIdle
    /\ TakeIdle /\ S2Idle /\ EntryIdle

ClOthers == <<paperVars, dedupeVars, callVars, streamVars, batchVars,
              takeVars, s2Vars, entryVars, fb, ev, dl>>

\* Provider.__aenter__: a new client is stored in the object's field
ClientEnter(i) ==
    /\ cl.pc = "running" /\ cl.task[i] = "created"
    /\ LET id == cl.made + 1
       IN cl' = [cl EXCEPT !.made = id,
                           !._client[cl.providers[i]] = id,
                           !.own[i] = id,
                           !.task[i] = "searching"]
    /\ UNCHANGED ClOthers

\* a request of the task's search through _fetch_with_retry: the first get
\* of a call, or (retry) the get the loop comes back to after a 429 or
\* another HTTPStatusError of the request before it.  With no client in the
\* field a call returns None at lines 207-208 and the search ends without
\* an exception, while a retry reads the field unchecked at line 216 and
\* raises AttributeError; a closed client raises in get; otherwise the
\* request goes through the client the field holds.
ClientRequest(i, retry) ==
    /\ cl.pc = "running" /\ cl.task[i] = "searching"
    /\ Len(cl.used[i]) < MaxRequests
    /\ retry => cl.used[i] # <<>>
    /\ LET c == cl._client[cl.providers[i]]
       IN IF c = NoClient
          THEN cl' = [cl EXCEPT !.error[i] = retry, !.task[i] = "exiting"]
          ELSE IF c \in cl.closed
          THEN cl' = [cl EXCEPT !.error[i] = TRUE, !.task[i] = "exiting"]
          ELSE cl' = [cl EXCEPT !.used[i] = Append(@, c)]
    /\ UNCHANGED ClOthers

\* the search comes to its end and the task leaves the async with block
ClientSearchEnds(i) ==
    /\ cl.pc = "running" /\ cl.task[i] = "searching"
    /\ cl' = [cl EXCEPT !.task[i] = "exiting"]
    /\ UNCHANGED ClOthers

\* Provider.__aexit__ up to its await: the client in the field is closed
ClientClose(i) ==
    /\ cl.pc = "running" /\ cl.task[i] = "exiting"
    /\ LET c == cl._client[cl.providers[i]]
       IN IF c # NoClient
          THEN cl' = [cl EXCEPT !.closed = @ \cup {c}, !.task[i] = "closing"]
          ELSE cl' = [cl EXCEPT !.task[i] = "done"]
    /\ UNCHANGED ClOthers

\* Provider.__aexit__ after aclose() has returned: the field is cleared
ClientClear(i) ==
    /\ cl.pc = "running" /\ cl.task[i] = "closing"
    /\ cl' = [cl EXCEPT !._client[cl.providers[i]] = NoClient, !.task[i] = "done"]
    /\ UNCHANGED ClOthers

NextClient ==
    \/ \E i \in ClTasks : ClientEnter(i)
    \/ \E i \in ClTasks, retry \in BOOLEAN : ClientRequest(i, retry)
    \/ \E i \in ClTasks : ClientSearchEnds(i)
    \/ \E i \in ClTasks : ClientClose(i)
    \/ \E i \in ClTasks : ClientClear(i)

SpecClient == InitClient /\ [][NextClient]_vars

------------------------------------------------------------------------------
(* SpecDownload: download_papers read to its end by its caller.  Each       *)
(* downloader answers a DOI with bytes, with None or by raising, as the     *)
(* service behind it decides; writing the file and closing the client can   *)
(* fail.                                                                    *)

MaxDois == 2
MaxDownloaders == 2

DoiStrings == {<<"1", "/", "a">>, <<"1", ":", "b">>}
DownloaderNames == <<"open_access", "scihub", "playwright">>
DownloaderLists == {SubSeq(DownloaderNames, 1, n) : n \in 0..MaxDownloaders}

InvalidChars == {"/", "\\", ":", "*", "?", "\"", "<", ">", "|"}

make_filename(doi) ==
    [k \in 1..Len(doi) |-> IF doi[k] \in InvalidChars THEN "_" ELSE doi[k]]

AllFailedPrefix == <<"A", "l", "l", " ", "d", "o", "w", "n", "l", "o", "a", "d", "e", "r", "s", " ", "f", "a", "i", "l", "e", "d", " ", "f", "o", "r", " ", "D", "O", "I", ":", " ">>

DownloadResult(doi, success, filename, source, error) ==
    [doi |-> doi, success |-> success, filename |-> filename, source |-> source,
     error |-> error]

\* line 107: pdf_bytes is not None, for a download that returned
GotPdf(answer) == answer = "bytes"

InitDownload ==
    /\ \E ds \in SeqsUpTo(DoiStrings, MaxDois), dls \in DownloaderLists :
         dl = [pc          |-> "running",
               dois        |-> ds,
               downloaders |-> dls,
               i           |-> 1,
               j           |-> 1,
               step        |-> "loop",
               leaving     |-> "",
               files       |-> {},
               tried       |-> [k \in 1..Len(ds) |-> <<>>],
               results     |-> <<>>]
    /\ FbIdle /\ EvIdle /\ ClIdle
    /\ PaperIdle /\ DedupeIdle /\ CallIdle /\ StreamIdle /\ BatchIdle
    /\ TakeIdle /\ S2Idle /\ EntryIdle

DlOthers == <<paperVars, dedupeVars, callVars, streamVars, batchVars,
              takeVars, s2Vars, entryVars, fb, ev, cl>>

DlFilename == make_filename(dl.dois[dl.i]) \o <<".", "p", "d", "f">>

\* the loop of _download_single comes to downloader j: its scope is entered
\* and download(doi) is awaited (lines 103-106)
DownloadStarts ==
    /\ dl.pc = "running" /\ dl.step = "loop"
    /\ dl.i <= Len(dl.dois) /\ dl.j <= Len(dl.downloaders)
    /\ dl' = [dl EXCEPT !.step = "download"]
    /\ UNCHANGED DlOthers

\* download(doi) has ended with the answer; bytes are written to the file
\* (line 108), which the file system does (written) or refuses by raising.
\* The block is left by the return of line 109, by falling through or by an
\* exception, and __aexit__ awaits the close of the client.
Attempt(answer, written) ==
    /\ dl.pc = "running" /\ dl.step = "download"
    /\ ~GotPdf(answer) => written = FALSE
    /\ LET name == dl.downloaders[dl.j]
           log  == [dl.tried EXCEPT ![dl.i] = Append(@, [name |-> name, outcome |-> answer])]
       IN dl' = [dl EXCEPT !.tried = log,
                           !.step = "close",
                           !.files = IF written THEN @ \cup {DlFilename} ELSE @,
                           !.leaving = IF GotPdf(answer) /\ written THEN "return"
                                       ELSE IF answer = "none" THEN "end"
                                       ELSE "exception"]
    /\ UNCHANGED DlOthers

DownloadReturnsBytes == \E written \in BOOLEAN : Attempt("bytes", written)
DownloadReturnsNone  == Attempt("none", FALSE)
DownloadRaises       == Attempt("raises", FALSE)

\* __aexit__ has ended.  When it did not raise and the block was left by
\* its return, _download_single returns the success and download_papers
\* yields it; in every other case the loop goes on to the next downloader
\* (lines 115-117 for an exception).
ScopeLeft(raised) ==
    /\ dl.pc = "running" /\ dl.step = "close"
    /\ LET doi  == dl.dois[dl.i]
           name == dl.downloaders[dl.j]
       IN IF dl.leaving = "return" /\ ~raised
          THEN dl' = [dl EXCEPT !.results = Append(@, DownloadResult(doi, TRUE,
                                               Str(DlFilename), Str(<<name>>), None)),
                                !.i = @ + 1, !.j = 1, !.step = "loop", !.leaving = ""]
          ELSE dl' = [dl EXCEPT !.j = @ + 1, !.step = "loop", !.leaving = ""]
    /\ UNCHANGED DlOthers

CloseReturns == ScopeLeft(FALSE)
CloseRaises  == ScopeLeft(TRUE)

\* the loop of _download_single is exhausted: lines 119-123
AllFailed ==
    /\ dl.pc = "running" /\ dl.step = "loop"
    /\ dl.i <= Len(dl.dois) /\ dl.j > Len(dl.downloaders)
    /\ dl' = [dl EXCEPT !.results = Append(@, DownloadResult(dl.dois[dl.i], FALSE, None, None,
                                                 Str(AllFailedPrefix \o dl.dois[dl.i]))),
                        !.i = @ + 1, !.j = 1]
    /\ UNCHANGED DlOthers

\* the loop over the DOIs is exhausted and the generator ends
DownloadEnds ==
    /\ dl.pc = "running" /\ dl.step = "loop"
    /\ dl.i > Len(dl.dois)
    /\ dl' = [dl EXCEPT !.pc = "ended"]
    /\ UNCHANGED DlOthers

NextDownload ==
    \/ DownloadStarts
    \/ DownloadReturnsBytes
    \/ DownloadReturnsNone
    \/ DownloadRaises
    \/ CloseReturns
    \/ CloseRaises
    \/ AllFailed
    \/ DownloadEnds

SpecDownload == InitDownload /\ [][NextDownload]_vars

------------------------------------------------------------------------------
(* Batch search: what the claims speak about *)

Failed(i) == pc[i] = "failed"

\* the papers of the providers that did not raise, in provider-list order
RECURSIVE ConcatOk(_)
ConcatOk(n) ==
    IF n = 0 THEN <<>>
    ELSE ConcatOk(n - 1) \o (IF pc[n] = "done" THEN yielded[n] ELSE <<>>)

\* the papers a SearchResult of this call has to hold
ExpectedPapers ==
    IF dedupe_flag THEN DedupeLoop(ConcatOk(N), {}, <<>>) ELSE ConcatOk(N)

FailedNames == {providers[i] : i \in {j \in Tasks : Failed(j)}}

\* the last provider of the list that has this name and raised
LastFailed(name) ==
    CHOOSE i \in Tasks :
        /\ Failed(i) /\ providers[i] = name
        /\ \A j \in Tasks : (Failed(j) /\ providers[j] = name) => j <= i

\* the first provider of the list that raised
FirstFailedInList ==
    CHOOSE i \in Tasks : Failed(i) /\ \A j \in Tasks : Failed(j) => i <= j

\* the provider whose task was the first in time to return an error
FirstFailedInTime ==
    done_order[CHOOSE k \in 1..Len(done_order) :
        /\ Failed(done_order[k])
        /\ \A m \in 1..Len(done_order) : Failed(done_order[m]) => k <= m]

\* C1 as claimed: batch search with on_error "warn" or "ignore" returns a
\* SearchResult, errors[name] holds the error of every provider that raised,
\* and papers holds the papers of the providers that did not raise only.
C1_ErrorsHoldEveryError ==
    (on_error \in {"warn", "ignore"} /\ outcome.kind \notin {"idle", "pending"}) =>
        /\ outcome.kind = "returned"
        /\ \A i \in Tasks : Failed(i) =>
              /\ providers[i] \in DOMAIN outcome.value.errors
              /\ outcome.value.errors[providers[i]] = ErrorOf(i)
        /\ outcome.value.papers = ExpectedPapers

\* C1 as amended: ... the keys of errors are the names of the providers
\* that raised, and errors[name] holds the error of the last provider of the
\* list with that name that raised; papers holds the papers of the providers
\* that did not raise only.
C1_ErrorsHoldLastErrorOfName ==
    (on_error \in {"warn", "ignore"} /\ outcome.kind \notin {"idle", "pending"}) =>
        /\ outcome.kind = "returned"
        /\ DOMAIN outcome.value.errors = FailedNames
        /\ \A name \in FailedNames :
              outcome.value.errors[name] = ErrorOf(LastFailed(name))
        /\ outcome.value.papers = ExpectedPapers

\* two providers of one name raise, the first after it yielded a paper
C1_Witness ==
    /\ on_error = "warn" /\ outcome.kind = "returned"
    /\ providers = <<"a", "a">> /\ Failed(1) /\ Failed(2)
    /\ Len(yielded[1]) = 1
    /\ outcome.value.papers = <<>>
    /\ outcome.value.errors["a"] = ErrorOf(2)

\* C2 as claimed: batch search with on_error "fail" in which a provider
\* raised raises, and what it raises is the error of the provider that
\* failed first in time.
C2_RaisesFirstErrorInTime ==
    (on_error = "fail" /\ outcome.kind \notin {"idle", "pending"}
        /\ \E i \in Tasks : Failed(i)) =>
        /\ outcome.kind = "raised"
        /\ outcome.error = ErrorOf(FirstFailedInTime)

\* C2 as amended: ... what it raises is the error of the first provider of
\* the provider list that raised.
C2_RaisesFirstErrorInList ==
    (on_error = "fail" /\ outcome.kind \notin {"idle", "pending"}
        /\ \E i \in Tasks : Failed(i)) =>
        /\ outcome.kind = "raised"
        /\ outcome.error = ErrorOf(FirstFailedInList)

\* both providers raise, the second of the list first
C2_Witness ==
    /\ on_error = "fail" /\ outcome.kind = "raised"
    /\ N = 2 /\ Failed(1) /\ Failed(2)
    /\ done_order = <<2, 1>>
    /\ outcome.error = ErrorOf(1)

\* C7: batch search without dedupe returns the papers of the providers that
\* did not raise, concatenated in the order of the provider list and, of one
\* provider, in the order it yielded them.
C7_PapersInProviderListOrder ==
    (outcome.kind = "returned" /\ ~dedupe_flag) =>
        outcome.value.papers = ConcatOk(N)

\* the second provider of the list returns first; its paper comes last
C7_Witness ==
    /\ outcome.kind = "returned" /\ ~dedupe_flag
    /\ N = 2 /\ done_order = <<2, 1>>
    /\ yielded[1] = <<P1, P2>> /\ yielded[2] = <<P1>>
    /\ outcome.value.papers = <<P1, P2, P1>>

------------------------------------------------------------------------------
(* Paper and dedupe: what the claims speak about *)

\* s is t with some elements left out
RECURSIVE IsSubseq(_, _)
IsSubseq(s, t) ==
    IF s = <<>> THEN TRUE
    ELSE IF t = <<>> THEN FALSE
    ELSE IF Head(s) = Head(t) THEN IsSubseq(Tail(s), Tail(t))
    ELSE IsSubseq(s, Tail(t))

\* C8: dedupe() returns a subsequence of the input in which no two papers
\* are equal under Paper.__eq__, and every input paper is equal to a paper
\* that is kept and stands no later in the input.
C8_DedupeLeavesNoEqualPapers ==
    chain # <<>> =>
        LET inp == sr.papers
            out == chain[1].papers
        IN /\ IsSubseq(out, inp)
           /\ \A i, j \in 1..Len(out) : i < j => ~PaperEq(out[i], out[j])
           /\ \A k \in 1..Len(inp) :
                 \E j \in 1..k :
                    /\ PaperEq(inp[j], inp[k])
                    /\ \E m \in 1..Len(out) : out[m] = inp[j]

\* C9: a == b implies hash(a) == hash(b).
C9_EqualPapersHashEqual ==
    cmp # <<>> => (cmp[1].eq => cmp[1].ha = cmp[1].hb)

\* C10: dedupe() of a dedupe()'s result is that result: the same papers in
\* the same order, the same errors, the same total_by_provider.
C10_DedupeIdempotent ==
    Len(chain) = 2 =>
        /\ chain[2].papers = chain[1].papers
        /\ chain[2].errors = chain[1].errors
        /\ chain[2].total_by_provider = chain[1].total_by_provider

\* a list of three with two duplicates of its first paper, deduped twice
C10_Witness ==
    /\ Len(chain) = 2
    /\ Len(sr.papers) = 3 /\ Len(chain[1].papers) = 1
    /\ chain[2].papers = <<sr.papers[1]>>
    /\ DOMAIN sr.errors # {}

DistinctNames == \A i, j \in Tasks : i # j => providers[i] # providers[j]

RECURSIVE MapSum(_)
MapSum(m) ==
    IF DOMAIN m = {} THEN 0
    ELSE LET k == CHOOSE x \in DOMAIN m : TRUE
         IN m[k] + MapSum([x \in (DOMAIN m) \ {k} |-> m[x]])

\* C13: for a batch search over providers of pairwise distinct names that
\* returns a SearchResult, every provider's name is a key of exactly one of
\* errors and total_by_provider, total_by_provider[name] is the number of
\* papers that provider yielded, and with dedupe=False len(papers) is the
\* sum of the values of total_by_provider.
C13_EachNameInOneMap ==
    (outcome.kind = "returned" /\ DistinctNames) =>
        LET r == outcome.value
        IN /\ \A i \in Tasks :
                 /\ (providers[i] \in DOMAIN r.errors)
                       # (providers[i] \in DOMAIN r.total_by_provider)
                 /\ providers[i] \in DOMAIN r.errors <=> Raised(i)
                 /\ providers[i] \in DOMAIN r.total_by_provider =>
                       r.total_by_provider[providers[i]] = Len(yielded[i])
           /\ (DOMAIN r.errors) \cup (DOMAIN r.total_by_provider)
                 = {providers[i] : i \in Tasks}
           /\ ~dedupe_flag => Len(r.papers) = MapSum(r.total_by_provider)

\* a failed after one paper, b found two: b's count is 2, a has an error only
C13_Witness ==
    /\ outcome.kind = "returned" /\ ~dedupe_flag
    /\ providers = <<"a", "b">>
    /\ Raised(1) /\ Len(yielded[1]) = 1
    /\ ~Raised(2) /\ Len(yielded[2]) = 2
    /\ DOMAIN outcome.value.errors = {"a"}
    /\ outcome.value.total_by_provider = [x \in {"b"} |-> 2]
    /\ Len(outcome.value.papers) = 2

Min(a, b) == IF a < b THEN a ELSE b

\* the list the source iterates over
SourceList == pulled \o aiter

\* C14: take(n, source) yields exactly the first min(n, len(source)) items
\* of source, in source order, and then ends; take(0, source) yields nothing.
C14_TakeYieldsFirstN ==
    /\ [](LET k == Min(take_n, Len(SourceList))
          IN /\ Len(taken) <= k
             /\ taken = SubSeq(SourceList, 1, Len(taken))
             /\ tpc = "ended" => Len(taken) = k
             /\ take_n = 0 => taken = <<>>)
    /\ [][Len(taken) = Min(take_n, Len(SourceList)) => tpc' = "ended"]_vars

\* take(2, ...) over three items has ended after yielding the first two
C14_Witness ==
    /\ tpc = "ended" /\ take_n = 2
    /\ Len(SourceList) = 3 /\ Len(taken) = 2
    /\ taken = SubSeq(SourceList, 1, 2)

\* C15: once take has yielded its n-th item it pulls nothing more from its
\* source: at most n items are taken from the source.
C15_TakePullsAtMostN ==
    (take_n >= 1 /\ Len(taken) = take_n) => Len(pulled) <= take_n

\* C16: one call of _fetch_with_retry sends at most 3 requests; after a 429
\* on attempt 1 it waits 1 time unit and after a 429 on attempt 2 it waits 2
\* before it sends the request again; a 429 on the third attempt raises.
C16_RetryBackoff ==
    /\ sent <= 3
    /\ \A k \in 1..Len(sleeps) :
          /\ sleeps[k].attempt = 1 => sleeps[k].delay = 1
          /\ sleeps[k].attempt = 2 => sleeps[k].delay = 2
    /\ (Len(call_log) = 3 /\ call_log[3] = 429) => s2pc = "raised"

\* C17: a request answered with an HTTP error status other than 429 is not
\* sent again: the error is raised to the caller of _fetch_with_retry.
C17_OtherErrorsNotRetried ==
    \A k \in 1..Len(call_log) :
        call_log[k] \in {404, 500} =>
            k = Len(call_log) /\ sent = k /\ s2pc = "raised"

\* C18: pages are requested at the offsets 0, 100, 200, ...; no further page
\* is requested once a page came with fewer items than the page size, or
\* 1000 results have been asked for, or as many Papers as the caller's
\* max_results have been surfaced; so at most 10 pages are requested.
C18_NoPageBeyondNeed ==
    /\ [](/\ Len(page_offsets) <= MAX_TOTAL_RESULTS \div PAGE_SIZE
          /\ \A k \in 1..Len(page_offsets) : page_offsets[k] = (k - 1) * PAGE_SIZE)
    /\ [][Len(page_offsets') > Len(page_offsets) =>
            /\ Len(page_offsets) >= 1 => last_page_len' = PAGE_SIZE
            /\ Len(page_offsets) * PAGE_SIZE < MAX_TOTAL_RESULTS
            /\ surfaced' < max_results]_vars

\* the CitationRange nodes of a query
RECURSIVE RangesOf(_)
RangesOf(q) ==
    CASE q.type = "CitationRange" -> {q}
      [] q.type \in {"And", "Or"} -> RangesOf(q.left) \cup RangesOf(q.right)
      [] q.type = "Not" -> RangesOf(q.operand)
      [] OTHER -> {}

AllWithin(hi) == \A c \in surfaced_cites : c.some /\ c.val <= hi.val

\* C19, for any CitationRange of the query that has an upper bound max:
\* every Paper _search_api surfaces has a known citations_count <= max, and
\* the lower bound of that range is sent as the parameter minCitationCount.
C19_EveryRangeApplied ==
    method = "_search_api" =>
        \A r \in RangesOf(s2_query) :
            /\ r.max.some => AllWithin(r.max)
            /\ (r.min.some /\ request # <<>>) => request.params.minCitationCount = r.min

\* C19: when the first CitationRange of the query in pre-order, the one
\* extract_citation_range returns, has an upper bound max, every Paper that
\* _search_api surfaces has a known citations_count <= max, on every page;
\* the lower bound of that range, and of no other, is sent as the request
\* parameter minCitationCount.
C19_FirstRangeApplied ==
    method = "_search_api" =>
        LET cf == extract_citation_range(s2_query)
        IN /\ (cf # NoQuery /\ cf.max.some) => AllWithin(cf.max)
           /\ request # <<>> =>
                 request.params.minCitationCount
                    = (IF cf # NoQuery THEN cf.min ELSE NoNum)

\* title AND citations 2..5 over two pages with counts unknown, 0, 3 and 7:
\* the Papers with 0 and with 3 citations came through, minCitationCount=2
C19_Witness ==
    /\ method = "_search_api" /\ s2pc = "ended"
    /\ s2_query = And(T, CitationRange(Num(2), Num(5)))
    /\ Len(page_offsets) = 2
    /\ surfaced > PAGE_SIZE \div 2
    /\ surfaced_cites = {Num(0), Num(3)}
    /\ request.params.minCitationCount = Num(2)

\* C20: search() called with a query string that does not parse raises at
\* the call, in batch and in streaming mode: nothing is returned to await or
\* to iterate, no provider task is created, no provider is entered, and
\* parse has been called once.
C20_SyntaxErrorAtTheCall ==
    (query_arg.is_str /\ query_arg.text \in Malformed) =>
        /\ call \in {"uncalled", "raised"}
        /\ call = "raised" => parse_calls = 1
        /\ parse_calls <= 1
        /\ pc = <<>> /\ cstate = "idle" /\ outcome.kind = "idle"

\* a streaming search over two providers with an unclosed field call: raised
C20_Witness ==
    /\ call = "raised" /\ stream_flag
    /\ query_arg = StrArg(<<"TITLE", "(", "x">>)
    /\ Len(providers) = 2 /\ parse_calls = 1

\* a batch search with a string that parses: the providers are entered
C20_WitnessParsed ==
    /\ call = "started" /\ ~stream_flag
    /\ query_arg.is_str /\ query_arg.text \in WellFormed
    /\ handed_query = And(T, YearRange(Num(2021), NoNum))
    /\ Len(providers) = 2 /\ pc[1] = "searching"

\* C21: when remove_fulltext leaves no query, or no fulltext term can be
\* extracted, _search_with_fulltext_filter yields no paper and never calls
\* _search_api; and no call of _search_api is made without a query.
C21_NoSearchWithoutBaseQuery ==
    fb.pc # "idle" =>
        /\ (remove_fulltext(fb.query) = NoQuery \/ ~Truthy(extract_fulltext_term(fb.query)))
              => (fb.api_calls = <<>> /\ fb.out = <<>>)
        /\ \A k \in 1..Len(fb.api_calls) : fb.api_calls[k].query # NoQuery

\* NOT fulltext(x), with papers for x in the index: ended without a search
C21_Witness ==
    /\ fb.pc = "ended"
    /\ fb.query = Not(Field("fulltext", <<"x">>))
    /\ fb.matching_ids # {}
    /\ fb.api_calls = <<>> /\ fb.out = <<>>

\* the years an inclusive YearRange admits
Admits(yr, z) ==
    /\ yr.start.some => z >= yr.start.val
    /\ yr.end.some => z <= yr.end.val

\* the comparison as written
Satisfies(z, c, y) ==
    CASE c = "="  -> z = y
      [] c = ">"  -> z > y
      [] c = "<"  -> z < y
      [] c = ">=" -> z >= y
      [] OTHER    -> z <= y

\* C22: parse maps PUBYEAR = y to YearRange(y, y), PUBYEAR > y to
\* YearRange(y+1, None), PUBYEAR < y to YearRange(None, y-1), PUBYEAR >= y to
\* YearRange(y, None) and PUBYEAR <= y to YearRange(None, y); the range
\* admits exactly the years that satisfy the comparison.
C22_PubYearRanges ==
    (ev.pc = "returned" /\ ev.fn = "parse" /\ ev.arg \in PubYearStrings) =>
        LET c == ev.arg[2]
            y == IntegerTokens[ev.arg[3]]
            q == ev.value.q
        IN /\ ev.value.ok
           /\ c = "="  => q = YearRange(Num(y), Num(y))
           /\ c = ">"  => q = YearRange(Num(y + 1), NoNum)
           /\ c = "<"  => q = YearRange(NoNum, Num(y - 1))
           /\ c = ">=" => q = YearRange(Num(y), NoNum)
           /\ c = "<=" => q = YearRange(NoNum, Num(y))
           /\ \A z \in (y - 2)..(y + 2) : Admits(q, z) <=> Satisfies(z, c, y)

\* PUBYEAR > 2020 has become the years from 2021 on
C22_Witness ==
    /\ ev.pc = "returned" /\ ev.fn = "parse"
    /\ ev.arg = <<"PUBYEAR", ">", "2020">>
    /\ ev.value.q = YearRange(Num(2021), NoNum)

\* C23: the streaming search terminates for every provider list, the empty
\* list included: the consumer's iteration comes to its end, normally or by
\* raising.
C23_StreamTerminates == <>(cstate \in {"ended", "raised"})

\* C24: each provider task owns its HTTP client for its whole scoped search,
\* for every provider list, one naming the same provider object more than
\* once included: while the task searches, the object's client is the one
\* the task's own scope entry created and it is open (no other task has
\* closed or replaced it), every request of the task goes through it, and
\* once the task has left its scope that client is closed.
C24_TaskOwnsItsClient ==
    cl.pc = "running" =>
        \A i \in ClTasks :
            /\ cl.task[i] = "searching" =>
                   /\ cl._client[cl.providers[i]] = cl.own[i]
                   /\ cl.own[i] \notin cl.closed
            /\ \A k \in 1..Len(cl.used[i]) : cl.used[i][k] = cl.own[i]
            /\ ~cl.error[i]
            /\ cl.task[i] = "done" => cl.own[i] \in cl.closed

\* C25: take(n, s) over a streaming search s with on_error='fail' completes
\* normally after yielding n papers whenever s delivers n papers before any
\* provider error: once take has yielded its n papers, no error of s is
\* raised to the caller of take.
C25_ErrorAfterNthPaperNotSurfaced ==
    (on_error = "fail" /\ take_n >= 1 /\ Len(taken) = take_n) => tpc # "raised"

\* C26: Paper equality is an equivalence relation: a == a; a == b exactly
\* when b == a; a == b and b == c imply a == c.
C26_EqIsEquivalence ==
    (ev.pc = "returned" /\ ev.fn = "__eq__") =>
        /\ \A i \in 1..3 : ev.value[i][i]
        /\ \A i, j \in 1..3 : ev.value[i][j] <=> ev.value[j][i]
        /\ \A i, j, k \in 1..3 : (ev.value[i][j] /\ ev.value[j][k]) => ev.value[i][k]

\* C27: dedupe removes a paper only when an earlier paper of the list is
\* equal to it: a paper that no earlier paper of the receiver's list is
\* equal to is in the list of the result.
C27_OnlyEqualPapersRemoved ==
    chain # <<>> =>
        \A k \in 1..Len(sr.papers) :
            (\A j \in 1..(k - 1) : ~PaperEq(sr.papers[j], sr.papers[k])) =>
                \E n \in 1..Len(chain[1].papers) : chain[1].papers[n] = sr.papers[k]

\* C28: _collect_terms returns for Not(q) the same (year_start, year_end) as
\* for q and the terms of q each prefixed with '-'; a YearRange under Not is
\* sent to the API as the year parameter of the un-negated YearRange, in
\* every request that carries the query.
C28_NotKeepsYearsNegatesTerms ==
    (ev.pc = "returned" /\ ev.fn = "_collect_terms") =>
        /\ ev.arg.type = "Not" =>
             LET q == ev.arg.operand
                 c == _collect_terms(q)
             IN /\ ev.value.year_start = c.ys
                /\ ev.value.year_end = c.ye
                /\ Len(ev.value.terms) = Len(c.terms)
                /\ \A k \in 1..Len(c.terms) : ev.value.terms[k] = <<"-">> \o c.terms[k]
                /\ q.type = "YearRange" =>
                       /\ ev.value.terms = <<>>
                       /\ ev.value.year_start = q.start
                       /\ ev.value.year_end = q.end
                /\ ev.value.request # <<>> =>
                       ev.value.request.params.year = YearParam(c.ys, c.ye)
        /\ (ev.arg.type = "And" /\ ev.arg.right.type = "Not"
              /\ ev.arg.right.operand.type = "YearRange") =>
             LET y == ev.arg.right.operand
             IN /\ ev.value.request # <<>>
                /\ ev.value.request.params.year = YearParam(y.start, y.end)
                /\ ev.value.request.params.year.some
                /\ ev.value.request.params.year
                       = FirstRequest(And(ev.arg.left, y)).params.year

\* not (title("x") and the years 2019 to 2021): the term is negated and the
\* request carries year=2019-2021
C28_Witness ==
    /\ ev.pc = "returned" /\ ev.fn = "_collect_terms"
    /\ ev.arg = Not(And(T, YearRange(Num(2019), Num(2021))))
    /\ ev.value.terms = << <<"-", "\"", "x", "\"">> >>
    /\ ev.value.request.params.year
           = Str(<<"2", "0", "1", "9", "-", "2", "0", "2", "1">>)

\* author("y") and not (the years from 2020 on): the request carries
\* year=2020-
C28_WitnessUnderAnd ==
    /\ ev.pc = "returned" /\ ev.fn = "_collect_terms"
    /\ ev.arg = And(Field("author", <<"y">>), Not(YearRange(Num(2020), NoNum)))
    /\ ev.value.request.params.year = Str(<<"2", "0", "2", "0", "-">>)

\* C29: download_papers yields exactly one DownloadResult per input DOI, in
\* input order; for each DOI the downloaders are tried in list order, the
\* first that returns bytes decides the result (success, source = its name)
\* and no later one is tried; one that raises or returns nothing is skipped;
\* when none succeeds the result has success=False and a non-empty error,
\* and the remaining DOIs are still served.
C29_OneResultPerDoi ==
    dl.pc \in {"running", "ended"} =>
        /\ Len(dl.results) <= Len(dl.dois)
        /\ dl.pc = "ended" => Len(dl.results) = Len(dl.dois)
        /\ \A k \in 1..Len(dl.results) :
             LET r == dl.results[k]
                 t == dl.tried[k]
             IN /\ r.doi = dl.dois[k]
                /\ Len(t) <= Len(dl.downloaders)
                /\ \A n \in 1..Len(t) : t[n].name = dl.downloaders[n]
                /\ \A n \in 1..(Len(t) - 1) : t[n].outcome # "bytes"
                /\ r.success =>
                       /\ t # <<>>
                       /\ t[Len(t)].outcome = "bytes"
                       /\ r.source = Str(<<t[Len(t)].name>>)
                /\ ~r.success =>
                       /\ Len(t) = Len(dl.downloaders)
                       /\ \A n \in 1..Len(t) : t[n].outcome # "bytes"
                       /\ r.error.some /\ r.error.val # <<>>

\* C30: in the OpenAlex translation Not(q) adds to the filters exactly the
\* filters of q, each prefixed with '!', and nothing to the search terms; so
\* a Not of a title, abstract, keyword or fulltext leaf leaves the search
\* string and the filter string as they are without it.
C30_NotNegatesOnlyFilters ==
    (ev.pc = "returned" /\ ev.fn = "_build_params") =>
        /\ ev.arg.type = "Not" =>
             LET c == _collect_params(ev.arg.operand)
             IN /\ ev.value.search_terms = <<>>
                /\ ev.value.search = <<>>
                /\ Len(ev.value.filters) = Len(c.filters)
                /\ \A k \in 1..Len(c.filters) : ev.value.filters[k] = <<"!">> \o c.filters[k]
                /\ ev.arg.operand \in SearchLeaves => ev.value.filter = <<>>
        /\ (ev.arg.type = "And" /\ ev.arg.right.type = "Not"
              /\ ev.arg.right.operand \in SearchLeaves) =>
             /\ ev.value.search = _build_params(ev.arg.left).search
             /\ ev.value.filter = _build_params(ev.arg.left).filter

\* not (author("y") or the years from 2020 on): two negated filters and no
\* search term
C30_Witness ==
    /\ ev.pc = "returned" /\ ev.fn = "_build_params"
    /\ ev.arg = Not(Or(Field("author", <<"y">>), YearRange(Num(2020), NoNum)))
    /\ ev.value.search = <<>>
    /\ ev.value.filter = <<"!", "r", "a", "w", "_", "a", "u", "t", "h", "o", "r", "_", "n", "a", "m", "e", ".", "s", "e", "a", "r", "c", "h", ":", "y", ",", "!", "p", "u", "b", "l", "i", "c", "a", "t", "i", "o", "n", "_", "y", "e", "a", "r", ":", ">", "2", "0", "1", "9">>

\* title("x") and not fulltext("w"): the search string is that of title("x")
C30_WitnessSearchLeaf ==
    /\ ev.pc = "returned" /\ ev.fn = "_build_params"
    /\ ev.arg = And(T, Not(Field("fulltext", <<"w">>)))
    /\ ev.value.search = <<"x">>
    /\ ev.value.filter = <<>>

HasDoi(p) == p.doi.some /\ p.doi.val # <<>>

\* C11: two Papers with the same non-empty DOI are equal whatever their
\* titles and years; two Papers without a DOI are equal exactly when their
\* lowercased titles are equal and their years are equal; two Papers with
\* different non-empty DOIs are never equal.
C11_PaperEquality ==
    cmp # <<>> =>
        /\ (HasDoi(pa) /\ HasDoi(pb) /\ pa.doi.val = pb.doi.val) => cmp[1].eq
        /\ (~HasDoi(pa) /\ ~HasDoi(pb)) =>
              (cmp[1].eq <=> (Lower(pa.title) = Lower(pb.title) /\ pa.year = pb.year))
        /\ (HasDoi(pa) /\ HasDoi(pb) /\ pa.doi.val # pb.doi.val) => ~cmp[1].eq

\* the same DOI on two papers of different title and year, found equal
C11_Witness ==
    /\ cmp # <<>> /\ cmp[1].eq
    /\ HasDoi(pa) /\ pa.doi = pb.doi
    /\ Lower(pa.title) # Lower(pb.title) /\ pa.year # pb.year

\* C12: dedupe() does not change the SearchResult it is called on, and its
\* result carries the receiver's errors and total_by_provider unchanged, so
\* total_by_provider keeps the counts from before the duplicates were dropped.
C12_DedupeKeepsReceiverAndMaps ==
    /\ [](chain # <<>> => /\ chain[1].errors = sr.errors
                          /\ chain[1].total_by_provider = sr.total_by_provider)
    /\ [][sr' = sr]_vars

\* three papers of provider a deduped to one, the count of a still 3
C12_Witness ==
    /\ chain # <<>>
    /\ Len(sr.papers) = 3 /\ Len(chain[1].papers) = 1
    /\ "a" \in DOMAIN sr.total_by_provider
    /\ chain[1].total_by_provider["a"] = 3
    /\ DOMAIN chain[1].errors = {"b"}

====
